---- MODULE Spec2Model ----
(***************************************************************************)
(* A model of the hybrid retrieval engine of src/locator.py:               *)
(*   - the index lifecycle of HybridLocator (build_index with its cache,   *)
(*     cooperative cancellation, precompute_embeddings, the dispatch of    *)
(*     search), specification Spec;                                        *)
(*   - the ranking of one search (BM25 candidates, cross-lingual fallback, *)
(*     reciprocal-rank and percentile-blend fusion), specification         *)
(*     SpecRank;                                                           *)
(*   - PDFIndexer.extract_all page by page, with the OCR modes, the OCR    *)
(*     cache and files that fail, specification SpecExtract;               *)
(*   - the batches of precompute_embeddings, specification SpecEmbed;      *)
(*   - _compute_pdf_dir_hash over a folder that changes, specification     *)
(*     SpecHash;                                                           *)
(*   - builds of one folder under several OCR settings, specification      *)
(*     SpecKeys;                                                           *)
(*   - one call of PDFIndexer._chunk_text, specification SpecChunk;        *)
(*   - one call of BM25Retriever.search, specification SpecBm25;           *)
(*   - the index worker and the search worker on one locator,              *)
(*     specification SpecThreads.                                          *)
(* Spec and SpecKeys take a page of the extraction as one step over files  *)
(* of a fixed content; SpecExtract follows the steps within a page.        *)
(* Modelling assumptions: writing, unlinking and listing files succeeds    *)
(* (the code swallows the failures of the former two), SHA-1 is collision  *)
(* free, and Path.glob lists the files in the order of their numbers.      *)
(***************************************************************************)
EXTENDS Integers, Sequences, FiniteSets, TLC

\* ------------------------------------------------------------------ bounds

\* PDF files that may be present in the folder are named 1..NumFiles.
NumFiles == 2
\* How often the folder content may change, or a cache file be damaged, in
\* one behaviour.
MaxFolderChanges == 1
\* How many build_index calls one behaviour makes.
MaxBuilds == 2

\* ------------------------------------------------------- program constants

\* batch_size of precompute_embeddings.
BatchSize == 10
\* Default ocr_dpi of build_index.
DefaultDpi == 200

\* Python's None as the value of an object field, and as a model name.
None == [none |-> TRUE]
NoModel == "None"

Files == 1..NumFiles

\* Values of the ocr_mode argument; "bogus" stands for any other string.
OcrModeArgs == {"fast", "off", "bogus"}

\* The model names a locator is constructed with (None: keywords only).
ModelNames == {NoModel, "BAAI/bge-small-en-v1.5"}

VARIABLES
    \* ---- environment
    folder,         \* the *.pdf files present in pdf_dir
    folderChanges,  \* number of folder changes so far
    cacheFiles,     \* index cache directory: key -> pickled documents
    metaFiles,      \* index cache directory: key -> meta.json content
    cancel,         \* the cancel_event of the running operation
    \* ---- HybridLocator fields
    model_name,
    documents,
    bm25,           \* None, or the BM25Retriever: the documents it was built over
    reranker,       \* whether a SemanticReranker is loaded
    doc_embeddings, \* None, or the matrix: for each row, what it was encoded from
    deep_mode,
    \* ---- the running build_index / precompute_embeddings call
    pc,             \* "idle", "files", "pages", "post", "embed"
    call,           \* arguments and locals of the running call
    indexer,        \* PDFIndexer.documents of the running build
    \* ---- what the caller observed
    lastResult,     \* outcome of the latest build_index / precompute call
    searchOut,      \* outcome of the latest search, "none" after other steps
    \* ---- history
    builds,         \* number of build_index calls so far
    built,          \* a build_index completed on this locator
    lastFresh,      \* the latest build that completed by extraction
    \* ---- one search call (specification SpecRank)
    rank,           \* its inputs, its position and what it returned
    \* ---- the extraction in detail (specification SpecExtract)
    pdf,            \* the content of the files: whether each opens, its pages
    ocr,            \* whether the OCR engine is available; the OCR disk cache
    unit,           \* the external call the latest step started, if any
    lateUnits,      \* external calls started since the cancel_event was set
    \* ---- one call of _chunk_text (specification SpecChunk)
    chunker         \* its units, its window and the chunks it has emitted

vars == <<folder, folderChanges, cacheFiles, metaFiles, cancel, model_name,
          documents, bm25, reranker, doc_embeddings, deep_mode, pc, call,
          indexer, lastResult, searchOut, builds, built, lastFresh, rank,
          pdf, ocr, unit, lateUnits, chunker>>

\* ------------------------------------------------------------ pure helpers

RECURSIVE SetToSeq(_)
\* The members of a set of numbers in ascending order: the files of the
\* folder as the glob lists them.
SetToSeq(S) ==
    IF S = {} THEN <<>>
    ELSE LET m == CHOOSE x \in S : \A y \in S : x <= y
         IN  <<m>> \o SetToSeq(S \ {m})

\* The characters of file names and of the decimal forms of sizes and
\* modification times, in code point order.
Chars == <<".", "0", "1", "2", "3", "4", "5", "6", "7", "8", "9",
           "a", "b", "c", "d", "f", "p">>

Ord(c) == CHOOSE i \in DOMAIN Chars : Chars[i] = c

\* Comparison of two names, as sorted() compares the paths of one directory.
RECURSIVE NameLess(_, _)
NameLess(s, t) ==
    IF s = <<>> THEN t # <<>>
    ELSE IF t = <<>> THEN FALSE
    ELSE IF Head(s) = Head(t) THEN NameLess(Tail(s), Tail(t))
    ELSE Ord(Head(s)) < Ord(Head(t))

\* str(n) of a natural number.
RECURSIVE Str(_)
Str(n) ==
    IF n < 10 THEN <<Chars[n + 2]>>
    ELSE Str(n \div 10) \o <<Chars[(n % 10) + 2]>>

\* str(st_mtime) of a modification time given in hundredths of a second:
\* the shortest decimal form, with at least one digit after the point.
MtimeStr(m) ==
    Str(m \div 100) \o <<".">> \o
    (IF m % 10 = 0 THEN Str((m % 100) \div 10)
     ELSE Str((m % 100) \div 10) \o Str(m % 10))

\* The name of a file of the folder: a stem and the extension.
PdfName(stem) == stem \o <<".", "p", "d", "f">>

\* A listing left in the order of the glob.
Unsorted(listing, files) == listing

\* sorted(...) of the listing of the folder, by name (insertion sort); files
\* gives the name, size and modification time of each file.
RECURSIVE Insert(_, _, _)
Insert(f, sorted, files) ==
    IF sorted = <<>> THEN <<f>>
    ELSE IF NameLess(files[f].name, files[Head(sorted)].name)
         THEN <<f>> \o sorted
         ELSE <<Head(sorted)>> \o Insert(f, Tail(sorted), files)

RECURSIVE InsertAll(_, _, _)
InsertAll(listing, sorted, files) ==
    IF listing = <<>> THEN sorted
    ELSE InsertAll(Tail(listing), Insert(Head(listing), sorted, files), files)

Sorted(listing, files) == InsertAll(listing, <<>>, files)

\* The three updates of the digest for one file (lines 74-76).
FileInput(file) ==
    file.name \o Str(file.size) \o MtimeStr(file.mtime)

\* What the digest is fed with for a listing of the folder (lines 69-78).
\* SHA-1 is taken to be free of collisions: the input stands for the digest.
RECURSIVE HashInput(_, _)
HashInput(pdf_files, files) ==
    IF pdf_files = <<>> THEN <<>>
    ELSE FileInput(files[Head(pdf_files)]) \o HashInput(Tail(pdf_files), files)

HashOfListing(listing, files) == HashInput(Sorted(listing, files), files)

\* _compute_pdf_dir_hash of the folder holding the files dir.
ComputePdfDirHash(dir) == HashOfListing(SetToSeq(dir), pdf)

\* A prefix that names the folder only.
IndexCachePrefixOfFolder(dir, ocr_mode, ocr_dpi) ==
    <<"locator_">> \o ComputePdfDirHash(dir)

\* _index_cache_prefix: locator_<hash>_<mode>_dpi<dpi>.
IndexCachePrefix(dir, ocr_mode, ocr_dpi) ==
    <<"locator_">> \o ComputePdfDirHash(dir) \o <<"_", ocr_mode, "_dpi">>
    \o Str(ocr_dpi)

\* Pages of a file: file 1 has a text page and a scanned page, the others one
\* text page.
NumPages(f) == IF f = 1 THEN 2 ELSE 1

PageKind(f, p) == IF f = 1 /\ p = 2 THEN "scan" ELSE "text"

\* tokenize(text), abstractly: the token list is a function of the text.
Tokenize(text) == <<"tok", text>>

\* PageDocument(pdf_name, page_num, text, chunk_id) with __post_init__.
PageDocument(f, p, text, idx) ==
    [pdf_name |-> f, page_num |-> p, text |-> text, chunk_id |-> idx,
     tokens |-> Tokenize(text)]

\* The chunks _extract_pdf appends for one page: a text page gives one chunk;
\* a scanned page has no text layer and gives a chunk only when OCR ran.
PageChunks(f, p, ocr_mode) ==
    IF PageKind(f, p) = "text"
    THEN <<PageDocument(f, p, <<f, p, "text">>, 1)>>
    ELSE IF ocr_mode = "off" THEN <<>>
         ELSE <<PageDocument(f, p, <<f, p, "ocr">>, 1)>>

\* pickle.dump / pickle.load of the documents list: every object is written
\* as its field values and rebuilt from them without running __post_init__.
Pickle(docs) ==
    [i \in 1..Len(docs) |->
        <<docs[i].pdf_name, docs[i].page_num, docs[i].text, docs[i].chunk_id,
          docs[i].tokens>>]

Unpickle(blob) ==
    [i \in 1..Len(blob) |->
        [pdf_name |-> blob[i][1], page_num |-> blob[i][2], text |-> blob[i][3],
         chunk_id |-> blob[i][4], tokens |-> blob[i][5]]]

\* Bytes that pickle.load rejects, and a metadata file that json.loads (or
\* meta.get) rejects.
BadPickle == << <<"garbage">> >>
BadMeta == [garbage |-> TRUE]

IsPickle(blob) == ~(Len(blob) = 1 /\ Len(blob[1]) = 1)
IsMeta(meta) == "dir_hash" \in DOMAIN meta

\* Writing and unlinking one file of the cache directory.
WriteFile(dirmap, key, content) ==
    [k \in DOMAIN dirmap \cup {key} |-> IF k = key THEN content ELSE dirmap[k]]

\* A cancel path that leaves the files where they are.
UnlinkSkipped(dirmap, key) == dirmap

Unlink(dirmap, key) ==
    [k \in DOMAIN dirmap \ {key} |-> dirmap[k]]

\* ocr_mode normalisation at the top of build_index.
NormMode(m) == IF m \in {"fast", "deep", "off"} THEN m ELSE "fast"

\* The pages behind NumPages and PageKind: a page of extractable text, and a
\* scanned page (an image without text layer that OCR can read).
TextPage == [chars |-> 60, images |-> FALSE, ocr |-> 0, raises |-> FALSE,
             renders |-> TRUE, engine_ok |-> TRUE]
ScanPage == [chars |-> 0, images |-> TRUE, ocr |-> 20, raises |-> FALSE,
             renders |-> TRUE, engine_ok |-> TRUE]

\* The stems of the names the files have unless they are renamed.
Stem(f) == <<Chars[11 + f]>>

DefaultPdf ==
    [f \in Files |->
       [opens |-> TRUE,
        pages |-> [p \in 1..NumPages(f) |->
                     IF PageKind(f, p) = "text" THEN TextPage ELSE ScanPage],
        name |-> PdfName(Stem(f)), size |-> 12, mtime |-> 150]]

NoUnit == [kind |-> "none"]
NoChunker == [pc |-> "none"]
NoCall == [op |-> "none"]
NoRank == [pc |-> "none"]
NoFresh == [valid |-> FALSE]

\* ------------------------------------------------------------------- Init

\* HybridLocator.__init__ on an empty cache directory.
Init ==
    /\ rank = NoRank
    /\ pdf = DefaultPdf
    /\ ocr = [available |-> TRUE, cache |-> <<>>]
    /\ unit = NoUnit
    /\ lateUnits = 0
    /\ chunker = NoChunker
    /\ folder = Files
    /\ folderChanges = 0
    /\ cacheFiles = <<>>
    /\ metaFiles = <<>>
    /\ cancel = FALSE
    /\ model_name \in ModelNames
    /\ documents = <<>>
    /\ bm25 = None
    /\ reranker = FALSE
    /\ doc_embeddings = None
    /\ deep_mode = FALSE
    /\ pc = "idle"
    /\ call = NoCall
    /\ indexer = <<>>
    /\ lastResult = "none"
    /\ searchOut = "none"
    /\ builds = 0
    /\ built = FALSE
    /\ lastFresh = NoFresh

\* ----------------------------------------------------------- environment

\* A *.pdf file is added to or removed from the folder.
FolderChange ==
    /\ UNCHANGED <<rank, pdf, ocr, unit, lateUnits, chunker>>
    /\ folderChanges < MaxFolderChanges
    /\ pc \in {"idle", "cache", "files", "post"}
    /\ \E f \in Files :
          folder' = IF f \in folder THEN folder \ {f} ELSE folder \cup {f}
    /\ folderChanges' = folderChanges + 1
    /\ lastFresh' = NoFresh
    /\ searchOut' = "none"
    /\ UNCHANGED <<cacheFiles, metaFiles, cancel, model_name, documents, bm25,
                   reranker, doc_embeddings, deep_mode, pc, call, indexer,
                   lastResult, builds, built>>

\* A file of the cache directory is damaged between two calls: its content is
\* no longer what was written.  The event counts as a change of the
\* environment, like a change of the folder.
CorruptCache ==
    /\ UNCHANGED <<rank, pdf, ocr, unit, lateUnits, chunker>>
    /\ folderChanges < MaxFolderChanges
    /\ pc = "idle"
    /\ \/ /\ \E k \in DOMAIN cacheFiles :
                /\ IsPickle(cacheFiles[k])
                /\ cacheFiles' = WriteFile(cacheFiles, k, BadPickle)
          /\ UNCHANGED metaFiles
       \/ /\ \E k \in DOMAIN metaFiles :
                /\ IsMeta(metaFiles[k])
                /\ metaFiles' = WriteFile(metaFiles, k, BadMeta)
          /\ UNCHANGED cacheFiles
    /\ folderChanges' = folderChanges + 1
    /\ lastFresh' = NoFresh
    /\ searchOut' = "none"
    /\ UNCHANGED <<folder, cancel, model_name, documents, bm25, reranker,
                   doc_embeddings, deep_mode, pc, call, indexer, lastResult,
                   builds, built>>

\* The caller sets the cancel_event of the running call.
Cancel ==
    /\ UNCHANGED <<rank, pdf, ocr, unit, chunker>>
    /\ lateUnits' = 0
    /\ pc # "idle"
    /\ ~cancel
    /\ cancel' = TRUE
    /\ searchOut' = "none"
    /\ UNCHANGED <<folder, folderChanges, cacheFiles, metaFiles, model_name,
                   documents, bm25, reranker, doc_embeddings, deep_mode, pc,
                   call, indexer, lastResult, builds, built, lastFresh>>

\* ---------------------------------------------------------- HybridLocator

\* HybridLocator(pdf_dir, model_name): a new locator over the same folder and
\* cache directory.
NewLocator ==
    /\ UNCHANGED <<rank, pdf, ocr, unit, lateUnits, chunker>>
    /\ pc = "idle"
    /\ builds < MaxBuilds
    /\ (built \/ lastResult # "none")
    /\ \E m \in ModelNames : model_name' = m
    /\ documents' = <<>>
    /\ bm25' = None
    /\ reranker' = FALSE
    /\ doc_embeddings' = None
    /\ deep_mode' = FALSE
    /\ call' = NoCall
    /\ lastResult' = "none"
    /\ searchOut' = "none"
    /\ built' = FALSE
    /\ UNCHANGED <<folder, folderChanges, cacheFiles, metaFiles, cancel, pc,
                   indexer, builds, lastFresh>>

\* Lines 671-688 of build_index: with no documents the retrievers and the
\* embeddings are cleared; otherwise the BM25 retriever is rebuilt over the
\* documents and the semantic model is loaded when a model name is set, and
\* doc_embeddings and deep_mode are left as they are.
InitRetrievers(docs) ==
    IF docs = <<>>
    THEN /\ bm25' = None
         /\ reranker' = FALSE
         /\ deep_mode' = FALSE
         /\ doc_embeddings' = None
    ELSE /\ bm25' = [documents |-> docs]
         /\ reranker' = (model_name # NoModel)
         /\ UNCHANGED <<deep_mode, doc_embeddings>>

\* A validity test that compares the stored hash with the cache key instead
\* of the folder's current hash.
UseCacheAgainstKey(key, dir) ==
    /\ key \in DOMAIN metaFiles
    /\ IsMeta(metaFiles[key])
    /\ metaFiles[key].dir_hash = key

\* Whether the cached snapshot of cache_path may be used (lines 605-615).
UseCache(key, dir) ==
    /\ key \in DOMAIN metaFiles
    /\ IsMeta(metaFiles[key])
    /\ metaFiles[key].dir_hash = ComputePdfDirHash(dir)

\* build_index up to its first branch (lines 595-604) and, on the extraction
\* branch, up to the listing of the folder by extract_all (lines 640-645,
\* 314-317).
BuildStart(force_rebuild, mode_arg, ocr_dpi) ==
    /\ UNCHANGED <<rank, pdf, ocr, unit, lateUnits, chunker>>
    /\ pc = "idle"
    /\ builds < MaxBuilds
    /\ builds' = builds + 1
    /\ cancel' = FALSE
    /\ searchOut' = "none"
    /\ lastResult' = "running"
    /\ LET ocr_mode == NormMode(mode_arg)
           key == IndexCachePrefix(folder, ocr_mode, ocr_dpi)
           \* history: the in-memory index when the call began
           before == [documents |-> documents, bm25 |-> bm25,
                      doc_embeddings |-> doc_embeddings,
                      deep_mode |-> deep_mode]
       IN
       IF ~force_rebuild /\ key \in DOMAIN cacheFiles
       THEN /\ call' = [op |-> "build", force |-> force_rebuild,
                         ocr_mode |-> ocr_mode, key |-> key, pre |-> before]
            /\ pc' = "cache"
            /\ UNCHANGED indexer
       ELSE /\ call' = [op |-> "build", force |-> force_rebuild,
                         ocr_mode |-> ocr_mode, key |-> key, pre |-> before,
                         pdf_files |-> SetToSeq(folder), fi |-> 1, pi |-> 1]
            /\ indexer' = <<>>
            /\ pc' = "files"
    /\ UNCHANGED <<folder, folderChanges, cacheFiles, metaFiles, model_name,
                   documents, bm25, reranker, doc_embeddings, deep_mode,
                   built, lastFresh>>

\* The cache branch of build_index (lines 605-638): the folder hash is
\* computed again and compared with the metadata.  On a match the snapshot
\* is loaded.  Otherwise line 618 prints and control leaves the if statement,
\* whose else branch holds the extraction, and continues at line 671 with
\* self.documents as it was.  pickle.load (line 622) is in no try block: on
\* bytes it rejects the exception leaves build_index.
BuildFromCache ==
    /\ UNCHANGED <<rank, pdf, ocr, unit, lateUnits, chunker>>
    /\ pc = "cache"
    /\ pc' = "idle"
    /\ searchOut' = "none"
    /\ IF UseCache(call.key, folder)
       THEN IF IsPickle(cacheFiles[call.key])
            THEN LET loaded == Unpickle(cacheFiles[call.key]) IN
                 /\ documents' = loaded
                 /\ InitRetrievers(loaded)
                 /\ call' = [op |-> "build_load"]
                 /\ lastResult' = "ready"
                 /\ built' = TRUE
            ELSE /\ call' = [op |-> "build_error"]
                 /\ lastResult' = "error"
                 /\ UNCHANGED <<documents, bm25, reranker, doc_embeddings,
                                deep_mode, built>>
       ELSE /\ InitRetrievers(documents)
            /\ call' = [op |-> "build_stale"]
            /\ lastResult' = "ready"
            /\ built' = TRUE
            /\ UNCHANGED documents
    /\ cancel' = FALSE
    /\ UNCHANGED <<folder, folderChanges, cacheFiles, metaFiles, model_name,
                   indexer, builds, lastFresh>>

\* One iteration of the loop of extract_all (lines 319-323, 330-332): the
\* cancellation check, then fitz.open; a file that is gone raises inside
\* _extract_pdf and is skipped.
ExtractAllStep ==
    /\ UNCHANGED <<rank, pdf, ocr, unit, lateUnits, chunker>>
    /\ pc = "files"
    /\ searchOut' = "none"
    /\ IF call.fi > Len(call.pdf_files) \/ cancel
       THEN /\ pc' = "post"
            /\ UNCHANGED call
       ELSE IF call.pdf_files[call.fi] \in folder
            THEN /\ pc' = "pages"
                 /\ call' = [call EXCEPT !.pi = 1]
            ELSE /\ call' = [call EXCEPT !.fi = @ + 1]
                 /\ UNCHANGED pc
    /\ UNCHANGED <<folder, folderChanges, cacheFiles, metaFiles, cancel,
                   model_name, documents, bm25, reranker, doc_embeddings,
                   deep_mode, indexer, lastResult, builds, built,
                   lastFresh>>

\* One iteration of the page loop of _extract_pdf (lines 333-372).
ExtractPdfPage ==
    /\ UNCHANGED <<rank, pdf, ocr, unit, lateUnits, chunker>>
    /\ pc = "pages"
    /\ searchOut' = "none"
    /\ LET f == call.pdf_files[call.fi] IN
       IF call.pi > NumPages(f) \/ cancel
       THEN /\ pc' = "files"
            /\ call' = [call EXCEPT !.fi = @ + 1]
            /\ UNCHANGED indexer
       ELSE /\ indexer' = indexer \o PageChunks(f, call.pi, call.ocr_mode)
            /\ call' = [call EXCEPT !.pi = @ + 1]
            /\ UNCHANGED pc
    /\ UNCHANGED <<folder, folderChanges, cacheFiles, metaFiles, cancel,
                   model_name, documents, bm25, reranker, doc_embeddings,
                   deep_mode, lastResult, builds, built, lastFresh>>

\* build_index after extract_all returned (lines 645-688).
BuildPost ==
    /\ UNCHANGED <<rank, pdf, ocr, unit, lateUnits, chunker>>
    /\ pc = "post"
    /\ pc' = "idle"
    /\ searchOut' = "none"
    /\ documents' = indexer
    /\ IF cancel
       THEN \* lines 647-659
            /\ cacheFiles' = Unlink(cacheFiles, call.key)
            /\ metaFiles' = Unlink(metaFiles, call.key)
            /\ lastResult' = "canceled"
            /\ lastFresh' = NoFresh
            /\ UNCHANGED <<bm25, reranker, doc_embeddings, deep_mode, built>>
       ELSE \* lines 661-688
            /\ cacheFiles' = WriteFile(cacheFiles, call.key, Pickle(indexer))
            /\ metaFiles' = WriteFile(metaFiles, call.key,
                                      [dir_hash |-> ComputePdfDirHash(folder)])
            /\ InitRetrievers(indexer)
            /\ lastResult' = "ready"
            /\ built' = TRUE
            /\ lastFresh' = [valid |-> TRUE, key |-> call.key,
                             docs |-> indexer]
    /\ call' = [op |-> "build_fresh"]
    /\ indexer' = <<>>
    /\ cancel' = FALSE
    /\ UNCHANGED <<folder, folderChanges, model_name, builds>>

\* SemanticReranker.encode of one passage: the vector is a function of the
\* (truncated) text.
Encode(text) == <<"emb", text>>

Min(a, b) == IF a <= b THEN a ELSE b

\* A batch of one text.
SliceOne(s, lo, hi) == <<s[lo + 1]>>

\* The Python slice s[lo:hi] of a list, for lo < len(s).
Slice(s, lo, hi) == [k \in 1..(Min(hi, Len(s)) - lo) |-> s[lo + k]]

\* precompute_embeddings up to the first batch (lines 696-711).
PrecomputeStart ==
    /\ UNCHANGED <<rank, pdf, ocr, unit, lateUnits, chunker>>
    /\ pc = "idle"
    /\ lastResult # "none"
    /\ searchOut' = "none"
    /\ cancel' = FALSE
    /\ IF ~reranker \/ documents = <<>>
       THEN /\ lastResult' = "skipped"
            /\ call' = [op |-> "embed"]
            /\ UNCHANGED pc
       ELSE /\ call' = [op |-> "embed",
                        texts |-> [i \in 1..Len(documents) |-> documents[i].text],
                        i |-> 0, rows |-> <<>>, current |-> 0]
            /\ pc' = "embed"
            /\ lastResult' = "running"
    /\ UNCHANGED <<folder, folderChanges, cacheFiles, metaFiles, model_name,
                   documents, bm25, reranker, doc_embeddings, deep_mode,
                   indexer, builds, built, lastFresh>>

\* One iteration of the batch loop (lines 713-726), or the end of the loop
\* (lines 728-732).  current is the progress the iteration reports.
PrecomputeBatch ==
    /\ UNCHANGED <<rank, pdf, ocr, unit, lateUnits, chunker>>
    /\ pc = "embed"
    /\ searchOut' = "none"
    /\ LET total == Len(call.texts) IN
       IF call.i >= total
       THEN /\ doc_embeddings' = [rows |-> call.rows]
            /\ deep_mode' = TRUE
            /\ pc' = "idle"
            /\ lastResult' = "embedded"
            /\ call' = [op |-> "embed"]
       ELSE IF cancel
            THEN /\ doc_embeddings' = None
                 /\ deep_mode' = FALSE
                 /\ pc' = "idle"
                 /\ lastResult' = "canceled"
                 /\ call' = [op |-> "embed"]
            ELSE LET batch_texts == Slice(call.texts, call.i, call.i + BatchSize)
                 IN call' = [call EXCEPT
                      !.rows = @ \o [j \in DOMAIN batch_texts
                                        |-> Encode(batch_texts[j])],
                      !.current = Min(call.i + BatchSize, total),
                      !.i = @ + BatchSize]
                 /\ UNCHANGED <<doc_embeddings, deep_mode, pc, lastResult>>
    /\ cancel' = (cancel /\ pc' # "idle")
    /\ UNCHANGED <<folder, folderChanges, cacheFiles, metaFiles, model_name,
                   documents, bm25, reranker, indexer, builds, built,
                   lastFresh>>

\* The guards at the top of search (lines 748-765): which way a search goes.
SearchDispatch ==
    IF documents = <<>> THEN "empty"
    ELSE IF bm25 = None THEN "not_built"
    ELSE IF deep_mode /\ reranker /\ doc_embeddings # None THEN "deep"
    ELSE "fast"

\* A search on the locator, from the search worker.
Search ==
    /\ UNCHANGED <<rank, pdf, ocr, unit, lateUnits, chunker>>
    /\ pc = "idle"
    /\ searchOut' = SearchDispatch
    /\ searchOut' # searchOut
    /\ UNCHANGED <<folder, folderChanges, cacheFiles, metaFiles, cancel,
                   model_name, documents, bm25, reranker, doc_embeddings,
                   deep_mode, pc, call, indexer, lastResult, builds, built, lastFresh>>

\* extract_all run to its end without cancellation on folder dir: the chunks
\* of every page of every file, in file and page order.
RECURSIVE ExtractPages(_, _, _)
ExtractPages(f, p, ocr_mode) ==
    IF p > NumPages(f) THEN <<>>
    ELSE PageChunks(f, p, ocr_mode) \o ExtractPages(f, p + 1, ocr_mode)

RECURSIVE ExtractFiles(_, _)
ExtractFiles(pdf_files, ocr_mode) ==
    IF pdf_files = <<>> THEN <<>>
    ELSE ExtractPages(Head(pdf_files), 1, ocr_mode)
         \o ExtractFiles(Tail(pdf_files), ocr_mode)

ExtractAll(dir, ocr_mode) == ExtractFiles(SetToSeq(dir), ocr_mode)

BuildIndex == \E force_rebuild \in BOOLEAN, mode_arg \in OcrModeArgs :
                 BuildStart(force_rebuild, mode_arg, DefaultDpi)

Next ==
    \/ FolderChange
    \/ CorruptCache
    \/ Cancel
    \/ NewLocator
    \/ BuildIndex
    \/ BuildFromCache
    \/ ExtractAllStep
    \/ ExtractPdfPage
    \/ BuildPost
    \/ PrecomputeStart
    \/ PrecomputeBatch
    \/ Search

Spec == Init /\ [][Next]_vars

\* ------------------------------------------------------------ one search
\*
\* The specification SpecRank follows one call of search() on a built index.
\* The two external capabilities are given by their outputs: bm[i] is the
\* BM25 score of chunk i for the query and sem[i] the cosine similarity of
\* chunk i with the query.  Scores are integers, in units of the eps of
\* _percentile_normalize; BM25Okapi scores can be negative (its idf is
\* negative for a term held by more than half of the chunks, and the floor it
\* substitutes, epsilon times the average idf, is negative when the average
\* is).  bm25_weight is in tenths.  np.argsort orders equal values in a way
\* that depends on the build of numpy (its sort is not stable), so every
\* ordering of equal values is an outcome.

\* Largest corpus of the exhaustively enumerated searches.
MaxChunks == 3
\* Size of the one corpus past the size threshold of _percentile_normalize.
BigChunks == 22

\* k of reciprocal rank fusion.
RrfK == 60
\* Below this many scores _percentile_normalize uses min-max.
SmallSize == 20
\* p_low and p_high of _percentile_normalize.
PLow == 5
PHigh == 95
\* eps of _percentile_normalize, in score units.
Eps == 1
\* Default top_k and bm25_candidates of search, and the sample size of the
\* cross-lingual fallback.
DefaultTopK == 5
DefaultCandidates == 20
SampleSize == 100

LexScores == {-1, 0, 1, 2}
TopKs == {2, DefaultTopK}
Biases == {0, 3, 10}
FusionMethods == {"rrf", "percentile"}
RankModels == {NoModel, "BAAI/bge-small-en-v1.5", "intfloat/multilingual-e5-large"}

\* is_multilingual_model of search: the name contains "multilingual", "e5",
\* "zh" or "chinese".
IsMultilingual(name) ==
    /\ name # NoModel
    /\ name \in {"intfloat/multilingual-e5-large", "BAAI/bge-small-zh-v1.5",
                 "BAAI/bge-large-zh-v1.5"}

Range(s) == {s[i] : i \in DOMAIN s}
SeqMax(s) == CHOOSE x \in Range(s) : \A y \in Range(s) : y <= x
SeqMin(s) == CHOOSE x \in Range(s) : \A y \in Range(s) : x <= y

\* np.argsort(scores)[::-1][:m] restricted to the indices in rest: the
\* sequences of m indices in descending order of score, equal scores in any
\* order.
RECURSIVE TopOrderFrom(_, _, _)
TopOrderFrom(scores, rest, m) ==
    IF m = 0 \/ rest = {} THEN {<<>>}
    ELSE UNION {{<<i>> \o t : t \in TopOrderFrom(scores, rest \ {i}, m - 1)} :
                  i \in {j \in rest : \A l \in rest : scores[l] <= scores[j]}}

\* np.argsort(scores) without the reversal: ascending order.
ArgsortAsc(scores) ==
    TopOrderFrom([i \in DOMAIN scores |-> 0 - scores[i]], DOMAIN scores, Len(scores))

\* np.argsort(scores)[::-1].
ArgsortDesc(scores) == TopOrderFrom(scores, DOMAIN scores, Len(scores))

TopIndices(scores, k) == TopOrderFrom(scores, DOMAIN scores, Min(k, Len(scores)))

\* pos[rank] = np.arange(1, n + 1): the 1-based position of each index.
Positions(order) ==
    [i \in DOMAIN order |-> CHOOSE r \in DOMAIN order : order[r] = i]

KeepAll(order, scores) == order

\* lines 393-397: the pairs whose score is positive, in the order given
RECURSIVE KeepPositive(_, _)
KeepPositive(order, scores) ==
    IF order = <<>> THEN <<>>
    ELSE (IF scores[Head(order)] > 0 THEN <<Head(order)>> ELSE <<>>)
         \o KeepPositive(Tail(order), scores)

\* BM25Retriever.search: the chunks of the top_k scores that are positive.
BM25Search(scores, top_k) ==
    {KeepPositive(t, scores) : t \in TopIndices(scores, top_k)}

\* random.sample(all_candidates, 100) when there are more than 100.
Sample(all) ==
    IF Len(all) > SampleSize
    THEN {[r \in 1..SampleSize |-> all[f[r]]] :
            f \in {g \in [1..SampleSize -> DOMAIN all] :
                     \A a, b \in 1..SampleSize : a # b => g[a] # g[b]}}
    ELSE {all}

\* The k-th smallest score, k counted from 0.
Kth(s, k) ==
    CHOOSE v \in Range(s) :
        /\ Cardinality({i \in DOMAIN s : s[i] < v}) <= k
        /\ k < Cardinality({i \in DOMAIN s : s[i] <= v})

\* 100 * np.percentile(s, p), linear interpolation between the neighbours
\* of position p/100 * (n - 1).
Percentile100(s, p) ==
    LET pos == p * (Len(s) - 1)
        f == pos \div 100
        g == pos % 100
    IN IF g = 0 THEN 100 * Kth(s, f)
       ELSE 100 * Kth(s, f) + g * (Kth(s, f + 1) - Kth(s, f))

\* A normalisation that does not clip.
ClipNone(x, lo, hi) == x

Clip(x, lo, hi) == IF x < lo THEN lo ELSE IF x > hi THEN hi ELSE x

\* (scores - s_min) / denom, zeros when the spread is below eps.
MinMaxNormalize(s) ==
    IF SeqMax(s) - SeqMin(s) < Eps
    THEN [num |-> [i \in DOMAIN s |-> 0], den |-> 1]
    ELSE [num |-> [i \in DOMAIN s |-> s[i] - SeqMin(s)],
          den |-> SeqMax(s) - SeqMin(s)]

\* _percentile_normalize: entry i of the result is num[i] / den.
PercentileNormalize(s) ==
    IF Len(s) = 0 THEN [num |-> s, den |-> 1]
    ELSE IF Len(s) < SmallSize THEN MinMaxNormalize(s)
    ELSE LET p5 == Percentile100(s, PLow)
             p95 == Percentile100(s, PHigh)
         IN IF p95 - p5 < 100 * Eps THEN MinMaxNormalize(s)
            ELSE [num |-> [i \in DOMAIN s |-> Clip(100 * s[i] - p5, 0, p95 - p5)],
                  den |-> p95 - p5]

\* The product of the denominators RrfK + 1 .. RrfK + n.
RECURSIVE RrfUnit(_)
RrfUnit(n) == IF n = 0 THEN 1 ELSE (RrfK + n) * RrfUnit(n - 1)

\* The combined scores of the two fusion methods (rerank and _search_deep
\* hold the same lines): entry i is combined[i] / den.
Fuse(bm25_scores, semantic_scores, bm25_weight, fusion_method) ==
    LET n == Len(semantic_scores) IN
    IF fusion_method = "rrf"
    THEN {[combined |-> [i \in 1..n |->
                            RrfUnit(n) \div (RrfK + sem_pos[i])
                            + RrfUnit(n) \div (RrfK + bm_pos[i])],
           den |-> RrfUnit(n)] :
            sem_pos \in {Positions(sem_rank) : sem_rank \in ArgsortDesc(semantic_scores)},
            bm_pos \in {Positions(bm_rank) : bm_rank \in ArgsortDesc(bm25_scores)}}
    ELSE LET sn == PercentileNormalize(semantic_scores)
             bn == PercentileNormalize(bm25_scores)
         IN {[combined |-> [i \in 1..n |->
                               (10 - bm25_weight) * sn.num[i] * bn.den
                               + bm25_weight * bn.num[i] * sn.den],
              den |-> 10 * sn.den * bn.den]}

\* The second half of rerank and of _search_deep: the top_k candidates by
\* combined score, each with its score (None under rrf).
Ranked(candidates, bm25_scores, semantic_scores, top_k, bm25_weight, fusion_method) ==
    UNION {{[results |-> [r \in DOMAIN t |-> candidates[t[r]]],
             scores |-> [r \in DOMAIN t |->
                           IF fusion_method = "rrf" THEN None
                           ELSE [num |-> f.combined[t[r]], den |-> f.den]],
             candidates |-> Range(candidates)] :
              t \in TopIndices(f.combined, top_k)} :
            f \in Fuse(bm25_scores, semantic_scores, bm25_weight, fusion_method)}

\* SemanticReranker.rerank, the similarities of the candidates given by sem.
Rerank(candidates, cand_scores, sem, top_k, bm25_weight, fusion_method) ==
    IF candidates = <<>> THEN {}
    ELSE Ranked(candidates, cand_scores,
                [r \in DOMAIN candidates |-> sem[candidates[r]]],
                top_k, bm25_weight, fusion_method)

\* round(num / den, 3) in thousandths, for num >= 0: the quotient digit by
\* digit, then round half to even.
RECURSIVE Scaled(_, _, _)
Scaled(num, den, digits) ==
    IF digits = 0 THEN [q |-> num \div den, r |-> num % den]
    ELSE LET s == Scaled(num, den, digits - 1)
         IN [q |-> 10 * s.q + (10 * s.r) \div den, r |-> (10 * s.r) % den]

Round3(num, den) ==
    LET s == Scaled(num, den, 3)
    IN IF 2 * s.r > den \/ (2 * s.r = den /\ s.q % 2 = 1) THEN s.q + 1 ELSE s.q

\* The output of search (lines 796-810) and of _search_deep (849-863): each
\* result with its score, None or rounded to three decimals (milli is the
\* score in thousandths).
Returned(r, is_cross_lingual, bm25_weight) ==
    [pc |-> "done", in |-> rank.in,
     out |-> [results |-> r.results,
              scores |-> [k \in DOMAIN r.scores |->
                            IF r.scores[k] = None THEN None
                            ELSE [milli |-> Round3(r.scores[k].num, r.scores[k].den)]],
              is_cross_lingual |-> is_cross_lingual,
              bm25_weight |-> bm25_weight,
              candidates |-> r.candidates]]

NoFusion(candidates, results, scores) ==
    [results |-> results, scores |-> scores, candidates |-> Range(candidates)]

lifeVars == <<folder, folderChanges, cacheFiles, metaFiles, cancel, model_name,
              documents, bm25, reranker, doc_embeddings, deep_mode, pc, call,
              indexer, lastResult, searchOut, builds, built, lastFresh>>

UseDeep == deep_mode /\ reranker /\ doc_embeddings # None

\* search in fast mode (lines 767-810).
SearchFast ==
    /\ rank.pc = "ready"
    /\ documents # <<>>
    /\ bm25 # None
    /\ ~UseDeep
    /\ \E found \in BM25Search(rank.in.bm, DefaultCandidates) :
         LET fallback == found = <<>> /\ reranker /\ IsMultilingual(model_name)
             all_candidates == [i \in 1..Len(documents) |-> i]
         IN \E candidates \in (IF fallback THEN Sample(all_candidates) ELSE {found}) :
              LET cand_scores == [r \in DOMAIN candidates |->
                                    IF fallback THEN 0 ELSE rank.in.bm[candidates[r]]]
                  bm25_weight == IF fallback THEN 0 ELSE rank.in.bm25_weight
                  top == SubSeq(candidates, 1, Min(rank.in.top_k, Len(candidates)))
              IN IF candidates = <<>>
                 THEN rank' = Returned(NoFusion(<<>>, <<>>, <<>>), FALSE, bm25_weight)
                 ELSE IF reranker
                 THEN \E r \in Rerank(candidates, cand_scores, rank.in.sem, rank.in.top_k,
                                      bm25_weight, rank.in.fusion_method) :
                        rank' = Returned(r, fallback, bm25_weight)
                 ELSE rank' = Returned(
                        NoFusion(candidates, top,
                                 [r \in DOMAIN top |-> [num |-> rank.in.bm[top[r]], den |-> 1]]),
                        fallback, bm25_weight)
    /\ UNCHANGED <<lifeVars, pdf, ocr, unit, lateUnits, chunker>>

\* _search_deep (lines 812-863).
SearchDeep ==
    /\ rank.pc = "ready"
    /\ documents # <<>>
    /\ bm25 # None
    /\ UseDeep
    /\ LET is_cross_lingual == SeqMax(rank.in.bm) = 0 /\ IsMultilingual(model_name)
           bm25_weight == IF is_cross_lingual THEN 0 ELSE rank.in.bm25_weight
       IN \E r \in Ranked([i \in 1..Len(documents) |-> i], rank.in.bm, rank.in.sem,
                          rank.in.top_k, bm25_weight, rank.in.fusion_method) :
            rank' = Returned(r, is_cross_lingual, bm25_weight)
    /\ UNCHANGED <<lifeVars, pdf, ocr, unit, lateUnits, chunker>>

\* The searches enumerated exhaustively.  Every operator of the search
\* treats the chunk indices alike, so the chunks are numbered in ascending
\* order of similarity (the similarities of distinct chunks are distinct) and
\* the lexical scores range over every arrangement.
SmallSearches ==
    UNION {[bm : [1..n -> LexScores], sem : {[i \in 1..n |-> i]},
            top_k : TopKs, bm25_weight : Biases, fusion_method : FusionMethods,
            model : RankModels, deep : BOOLEAN] : n \in 1..MaxChunks}

\* The searches of the corpus of BigChunks chunks, in deep mode with the
\* percentile blend.
BigSearches ==
    [bm : {[i \in 1..BigChunks |-> i], [i \in 1..BigChunks |-> BigChunks + 1 - i]},
     sem : {[i \in 1..BigChunks |-> i]},
     top_k : TopKs, bm25_weight : Biases, fusion_method : {"percentile"},
     model : RankModels \ {NoModel}, deep : {TRUE}]

RankDocs(n) == [i \in 1..n |-> PageDocument(1, i, <<1, i, "text">>, 1)]

\* A locator with a built index (and, in deep mode, its embeddings) about to
\* serve one search.
InitRank ==
    /\ \E s \in SmallSearches \cup BigSearches :
         /\ s.deep => s.model # NoModel
         /\ rank = [pc |-> "ready",
                    in |-> [bm |-> s.bm, sem |-> s.sem, top_k |-> s.top_k,
                            bm25_weight |-> s.bm25_weight,
                            fusion_method |-> s.fusion_method]]
         /\ model_name = s.model
         /\ documents = RankDocs(Len(s.bm))
         /\ deep_mode = s.deep
    /\ bm25 = [documents |-> documents]
    /\ reranker = (model_name # NoModel)
    /\ doc_embeddings = IF deep_mode
                        THEN [rows |-> [i \in 1..Len(documents) |-> Encode(documents[i].text)]]
                        ELSE None
    /\ folder = Files
    /\ folderChanges = 0
    /\ cacheFiles = <<>>
    /\ metaFiles = <<>>
    /\ cancel = FALSE
    /\ pc = "idle"
    /\ call = NoCall
    /\ indexer = <<>>
    /\ lastResult = IF deep_mode THEN "embedded" ELSE "ready"
    /\ searchOut = "none"
    /\ builds = 1
    /\ built = TRUE
    /\ lastFresh = NoFresh
    /\ pdf = DefaultPdf
    /\ ocr = [available |-> TRUE, cache |-> <<>>]
    /\ unit = NoUnit
    /\ lateUnits = 0
    /\ chunker = NoChunker

NextRank ==
    \/ SearchFast
    \/ SearchDeep

SpecRank == InitRank /\ [][NextRank]_vars

\* ------------------------------------------------------- the extraction
\*
\* The specification SpecExtract follows PDFIndexer on its own: runs of
\* extract_all over files whose pages differ in the length of their text
\* layer, in whether they hold images, in what OCR reads from them and in
\* whether they can be opened and parsed.  A text is modelled by its length
\* in characters, the text layer without surrounding white space.  The OCR
\* disk cache outlives the runs; reading and writing its files, rendering a
\* page and the run of the OCR engine succeed.

\* Thresholds of _extract_pdf.
FastOcrChars == 20
MinCharsOcr == 10
MinCharsPlain == 50

\* Rendering resolutions: the default and a higher one.
Dpis == {DefaultDpi, DefaultDpi + 100}
OcrModes == {"fast", "deep", "off"}

Page(chars, images, ocr_chars) ==
    [chars |-> chars, images |-> images, ocr |-> ocr_chars, raises |-> FALSE,
     renders |-> TRUE, engine_ok |-> TRUE]

\* Pages around the thresholds.
PageKinds ==
    { Page(50, FALSE, 0), Page(49, FALSE, 0), Page(50, TRUE, 20),
      Page(19, TRUE, 20), Page(20, TRUE, 30), Page(0, TRUE, 9),
      Page(4, TRUE, 5),   Page(0, TRUE, 0) }

\* The files of the default layout with page p of file f replaced.
WithPage(layout, f, p, page) ==
    [layout EXCEPT ![f].pages[p] = page]

\* Layouts: the second page of file 1 ranges over the page kinds; or it is a
\* scanned page that get_pixmap cannot render, or on which the OCR engine
\* raises; or one file cannot be opened; or one file raises while its last
\* page is parsed.
Layouts ==
    {WithPage(DefaultPdf, 1, 2, k) : k \in PageKinds}
    \cup {WithPage(DefaultPdf, 1, 2, [ScanPage EXCEPT !.renders = FALSE]),
          WithPage(DefaultPdf, 1, 2, [ScanPage EXCEPT !.engine_ok = FALSE])}
    \cup {[DefaultPdf EXCEPT ![f].opens = FALSE] : f \in Files}
    \cup {[DefaultPdf EXCEPT ![f].pages[NumPages(f)].raises = TRUE] : f \in Files}

\* _pdf_cache_key: path, mtime, page number and dpi; the files are not
\* modified, so the mtime is a function of the path.
PdfCacheKey(f, p, dpi) == <<f, p, dpi>>

\* OCR cache directories at the start: empty, or holding a text of seven
\* characters stored for the second page of file 1 at the default resolution.
OcrCaches ==
    {<<>>, [k \in {PdfCacheKey(1, 2, DefaultDpi)} |-> 7]}

\* A mode test that forgets the text length in mode fast.
WantsOcrAnyLength(ocr_mode, page, available) ==
    page.images /\ available /\ ocr_mode \in {"deep", "fast"}

\* Lines 342-351: whether _extract_pdf calls ocr_page for a page.
WantsOcr(ocr_mode, page, available) ==
    /\ page.images
    /\ available
    /\ \/ ocr_mode = "deep"
       \/ ocr_mode = "fast" /\ page.chars < FastOcrChars

\* Lines 353-354: the length of the text after the OCR text was appended.
Augmented(chars, ocr_chars) ==
    IF ocr_chars = 0 THEN chars
    ELSE IF chars = 0 THEN ocr_chars
    ELSE chars + 1 + ocr_chars

\* A minimum that ignores whether OCR contributed text.
MinCharsAlways(ocr_chars) == MinCharsPlain

\* Line 357.
MinChars(ocr_chars) == IF ocr_chars > 0 THEN MinCharsOcr ELSE MinCharsPlain

\* Line 360: the number of chunks _chunk_text cuts a text into.  The longer
\* texts of the model (those of a page of extractable text, and of a page
\* whose OCR text was appended to a full text layer) stand for texts of more
\* units than one window holds and give two chunks, the others one.
ChunkCount(chars) == IF chars >= TextPage.chars THEN 2 ELSE 1

\* A numbering that gives every chunk of a page the number 1.
EnumerateFromOne(f, p, text, n) ==
    [idx \in 1..n |-> PageDocument(f, p, text \o <<idx>>, 1)]

\* Lines 364-370: enumerate(chunks, 1), the page number 1-based.
Enumerate(f, p, text, n) ==
    [idx \in 1..n |-> PageDocument(f, p, text \o <<idx>>, idx)]

\* Lines 353-371: the chunks a page contributes once its text and its OCR
\* text are known.
ChunksOf(f, p, chars, ocr_chars) ==
    IF Augmented(chars, ocr_chars) < MinChars(ocr_chars) THEN <<>>
    ELSE Enumerate(f, p, <<f, p, chars, ocr_chars>>,
                   ChunkCount(Augmented(chars, ocr_chars)))

\* OCRProcessor.ocr_image (lines 154-176): the text the engine reads, the
\* empty text when the engine raises.
OcrImage(page) == IF page.engine_ok THEN page.ocr ELSE 0

\* A lookup that never finds a stored text.
LoadCacheMiss(cache, key) == None

\* OCRProcessor._load_cache.
LoadCache(cache, key) ==
    IF key \in DOMAIN cache THEN [text |-> cache[key]] ELSE None

\* OCRProcessor._save_cache.
SaveCache(cache, key, text) == WriteFile(cache, key, text)

\* The counter of external calls started after the cancel_event was set.
Late == IF cancel THEN lateUnits + 1 ELSE lateUnits

\* An exception handler that gives up the remaining files.
AfterErrorAbort(c) == [c EXCEPT !.fi = Len(c.pdf_files) + 1]

\* Lines 373-374: the exception ends the file; extract_all goes on.
AfterError(c) == [c EXCEPT !.fi = @ + 1]

extractFixed == <<folder, folderChanges, cacheFiles, metaFiles, model_name,
                  documents, bm25, reranker, doc_embeddings, deep_mode,
                  lastResult, searchOut, built, lastFresh, rank, pdf,
                  chunker>>

\* PDFIndexer(pdf_dir, ocr_mode, ocr_dpi, cancel_event) and extract_all up to
\* the listing of the folder (lines 253-266, 314-317).
NewIndexer(ocr_mode, ocr_dpi) ==
    /\ pc = "idle"
    /\ builds < MaxBuilds
    /\ builds' = builds + 1
    /\ cancel' = FALSE
    /\ call' = [op |-> "extract", ocr_mode |-> ocr_mode, ocr_dpi |-> ocr_dpi,
                pdf_files |-> SetToSeq(folder), fi |-> 1, pi |-> 1]
    /\ indexer' = <<>>
    /\ pc' = "open"
    /\ unit' = NoUnit
    /\ lateUnits' = 0
    /\ UNCHANGED <<extractFixed, ocr>>

\* The head of the loop of extract_all and the start of _extract_pdf (lines
\* 319-323, 330-332): the cancellation check, then fitz.open.
OpenPdf ==
    /\ pc = "open"
    /\ IF call.fi > Len(call.pdf_files) \/ cancel
       THEN /\ pc' = "idle"
            /\ call' = [op |-> "extracted", ocr_mode |-> call.ocr_mode,
                        ocr_dpi |-> call.ocr_dpi, canceled |-> cancel]
            /\ unit' = NoUnit
            /\ UNCHANGED lateUnits
       ELSE LET f == call.pdf_files[call.fi] IN
            /\ unit' = [kind |-> "open", f |-> f, checked |-> TRUE]
            /\ lateUnits' = Late
            /\ IF pdf[f].opens
               THEN /\ pc' = "page"
                    /\ call' = [call EXCEPT !.pi = 1]
               ELSE /\ call' = AfterError(call)
                    /\ UNCHANGED pc
    /\ UNCHANGED <<extractFixed, ocr, indexer, cancel, builds>>

\* The head of the page loop (lines 333-335, 372).
PageCheck ==
    /\ pc = "page"
    /\ LET f == call.pdf_files[call.fi] IN
       IF call.pi > Len(pdf[f].pages) \/ cancel
       THEN /\ pc' = "open"
            /\ call' = [call EXCEPT !.fi = @ + 1]
       ELSE /\ pc' = "text"
            /\ UNCHANGED call
    /\ unit' = NoUnit
    /\ UNCHANGED <<extractFixed, ocr, indexer, cancel, builds, lateUnits>>

\* Lines 336-351 and, for a page without OCR, 353-371: the text layer and the
\* images of the page are read, then the mode decides about OCR.
GetText ==
    /\ pc = "text"
    /\ LET f == call.pdf_files[call.fi]
           p == call.pi
           page == pdf[f].pages[p]
       IN
       /\ unit' = [kind |-> "text", f |-> f, p |-> p, checked |-> TRUE]
       /\ lateUnits' = Late
       /\ IF page.raises
          THEN /\ pc' = "open"
               /\ call' = AfterError(call)
               /\ UNCHANGED indexer
          ELSE IF WantsOcr(call.ocr_mode, page, ocr.available)
               THEN /\ pc' = "ocr"
                    /\ UNCHANGED <<call, indexer>>
               ELSE /\ pc' = "page"
                    /\ call' = [call EXCEPT !.pi = @ + 1]
                    /\ indexer' = indexer \o ChunksOf(f, p, page.chars, 0)
    /\ UNCHANGED <<extractFixed, ocr, cancel, builds>>

\* The call of ocr_page (lines 346/351, 178-192) and the rest of the page
\* (lines 353-371): a stored text is returned; otherwise the page is rendered
\* (the empty text is returned when that fails, and nothing is stored),
\* ocr_image reads it and what ocr_image returned is stored.
OcrPage ==
    /\ pc = "ocr"
    /\ LET f == call.pdf_files[call.fi]
           p == call.pi
           page == pdf[f].pages[p]
           key == PdfCacheKey(f, p, call.ocr_dpi)
           cached == LoadCache(ocr.cache, key)
           ocr_text == IF cached # None THEN cached.text
                       ELSE IF ~page.renders THEN 0
                       ELSE OcrImage(page)
       IN
       /\ unit' = [kind |-> "ocr", f |-> f, p |-> p, checked |-> FALSE,
                   engine |-> (cached = None /\ page.renders),
                   text |-> ocr_text]
       /\ lateUnits' = Late
       /\ ocr' = IF cached # None \/ ~page.renders THEN ocr
                 ELSE [ocr EXCEPT !.cache = SaveCache(@, key, ocr_text)]
       /\ indexer' = indexer \o ChunksOf(f, p, page.chars, ocr_text)
       /\ call' = [call EXCEPT !.pi = @ + 1]
       /\ pc' = "page"
    /\ UNCHANGED <<extractFixed, cancel, builds>>

InitExtract ==
    /\ pdf \in Layouts
    /\ ocr \in [available : BOOLEAN, cache : OcrCaches]
    /\ unit = NoUnit
    /\ lateUnits = 0
    /\ chunker = NoChunker
    /\ rank = NoRank
    /\ folder = Files
    /\ folderChanges = 0
    /\ cacheFiles = <<>>
    /\ metaFiles = <<>>
    /\ cancel = FALSE
    /\ model_name = NoModel
    /\ documents = <<>>
    /\ bm25 = None
    /\ reranker = FALSE
    /\ doc_embeddings = None
    /\ deep_mode = FALSE
    /\ pc = "idle"
    /\ call = NoCall
    /\ indexer = <<>>
    /\ lastResult = "none"
    /\ searchOut = "none"
    /\ builds = 0
    /\ built = FALSE
    /\ lastFresh = NoFresh

ExtractRun == \E ocr_mode \in OcrModes, ocr_dpi \in Dpis :
                 NewIndexer(ocr_mode, ocr_dpi)

\* The caller sets the cancel_event while extract_all runs.
CancelExtract == pc \in {"open", "page", "text", "ocr"} /\ Cancel

NextExtract ==
    \/ ExtractRun
    \/ CancelExtract
    \/ OpenPdf
    \/ PageCheck
    \/ GetText
    \/ OcrPage

SpecExtract == InitExtract /\ [][NextExtract]_vars

\* ------------------------------------------------- the embedding batches
\*
\* The specification SpecEmbed follows precompute_embeddings on locators whose
\* store holds up to BigChunks chunks, with and without a semantic model.

InitEmbed ==
    /\ rank = NoRank
    /\ pdf = DefaultPdf
    /\ ocr = [available |-> TRUE, cache |-> <<>>]
    /\ unit = NoUnit
    /\ lateUnits = 0
    /\ chunker = NoChunker
    /\ folder = Files
    /\ folderChanges = 0
    /\ cacheFiles = <<>>
    /\ metaFiles = <<>>
    /\ cancel = FALSE
    /\ model_name \in ModelNames
    /\ \E n \in 0..BigChunks : documents = RankDocs(n)
    /\ bm25 = IF documents = <<>> THEN None ELSE [documents |-> documents]
    /\ reranker = (documents # <<>> /\ model_name # NoModel)
    /\ doc_embeddings = None
    /\ deep_mode = FALSE
    /\ pc = "idle"
    /\ call = NoCall
    /\ indexer = <<>>
    /\ lastResult = "ready"
    /\ searchOut = "none"
    /\ builds = 1
    /\ built = TRUE
    /\ lastFresh = NoFresh

\* The caller sets the cancel_event while precompute_embeddings runs.
CancelEmbed == pc = "embed" /\ Cancel

NextEmbed ==
    \/ PrecomputeStart
    \/ PrecomputeBatch
    \/ CancelEmbed

SpecEmbed == InitEmbed /\ [][NextEmbed]_vars

\* ------------------------------------------------------ the folder hash
\*
\* The specification SpecHash follows the folder through changes of its
\* *.pdf files: a file is added, removed, renamed, resized or touched.  The
\* files differ in name, size and modification time; a name may begin with a
\* digit, like the decimal forms of the sizes and times that precede it in
\* the hashed input, and size 1 followed by time 11.1 reads like size 11
\* followed by time 1.1.  At the start the glob lists the files in the order
\* of their names.  stat() succeeds on every file of the listing.

Stems == {Stem(f) : f \in Files} \cup {<<"1", "a">>}
Sizes == {1, 11}
Mtimes == {110, 1110}

\* The names of the files in the folder, other than file f.
OtherNames(f) == {pdf[g].name : g \in folder \ {f}}

hashFixed == <<folderChanges, cacheFiles, metaFiles, cancel, model_name, documents, bm25,
               reranker, doc_embeddings, deep_mode, pc, call, indexer,
               lastResult, searchOut, builds, built, lastFresh, rank, ocr,
               unit, lateUnits, chunker>>

AddPdf(f) ==
    /\ f \notin folder
    /\ pdf[f].name \notin OtherNames(f)
    /\ folder' = folder \cup {f}
    /\ UNCHANGED pdf

RemovePdf(f) ==
    /\ f \in folder
    /\ folder' = folder \ {f}
    /\ UNCHANGED pdf

RenamePdf(f) ==
    /\ f \in folder
    /\ \E stem \in Stems :
          /\ PdfName(stem) # pdf[f].name
          /\ PdfName(stem) \notin OtherNames(f)
          /\ pdf' = [pdf EXCEPT ![f].name = PdfName(stem)]
    /\ UNCHANGED folder

ResizePdf(f) ==
    /\ f \in folder
    /\ \E size \in Sizes \ {pdf[f].size} :
          pdf' = [pdf EXCEPT ![f].size = size]
    /\ UNCHANGED folder

TouchPdf(f) ==
    /\ f \in folder
    /\ \E mtime \in Mtimes \ {pdf[f].mtime} :
          pdf' = [pdf EXCEPT ![f].mtime = mtime]
    /\ UNCHANGED folder

\* One change of one *.pdf file of the folder.
ChangePdf ==
    /\ \E f \in Files :
          \/ AddPdf(f)
          \/ RemovePdf(f)
          \/ RenamePdf(f)
          \/ ResizePdf(f)
          \/ TouchPdf(f)
    /\ UNCHANGED hashFixed

InitHash ==
    /\ \E sizes \in [Files -> Sizes], mtimes \in [Files -> Mtimes] :
          pdf = [f \in Files |->
                   [DefaultPdf[f] EXCEPT !.size = sizes[f],
                                         !.mtime = mtimes[f]]]
    /\ folder \in SUBSET Files
    /\ ocr = [available |-> TRUE, cache |-> <<>>]
    /\ unit = NoUnit
    /\ lateUnits = 0
    /\ chunker = NoChunker
    /\ rank = NoRank
    /\ folderChanges = 0
    /\ cacheFiles = <<>>
    /\ metaFiles = <<>>
    /\ cancel = FALSE
    /\ model_name = NoModel
    /\ documents = <<>>
    /\ bm25 = None
    /\ reranker = FALSE
    /\ doc_embeddings = None
    /\ deep_mode = FALSE
    /\ pc = "idle"
    /\ call = NoCall
    /\ indexer = <<>>
    /\ lastResult = "none"
    /\ searchOut = "none"
    /\ builds = 0
    /\ built = FALSE
    /\ lastFresh = NoFresh

NextHash == ChangePdf

SpecHash == InitHash /\ [][NextHash]_vars

\* ------------------------------------------------------- the cache keys
\*
\* The specification SpecKeys follows builds of one unchanged folder under
\* different OCR settings, by a locator without semantic model.  The cache
\* directory is empty at the start or holds the snapshot an earlier process
\* built under one of the settings.

\* Settings that differ in the mode only, and in the resolution only.
Settings == {<<"fast", DefaultDpi>>, <<"off", DefaultDpi>>,
             <<"fast", DefaultDpi + 100>>}

InitKeys ==
    /\ rank = NoRank
    /\ pdf = DefaultPdf
    /\ ocr = [available |-> TRUE, cache |-> <<>>]
    /\ unit = NoUnit
    /\ lateUnits = 0
    /\ chunker = NoChunker
    /\ folder = Files
    /\ folderChanges = 0
    /\ \/ cacheFiles = <<>> /\ metaFiles = <<>>
       \/ \E st \in Settings :
             LET key == IndexCachePrefix(folder, st[1], st[2]) IN
             /\ cacheFiles = [k \in {key} |-> Pickle(ExtractAll(folder, st[1]))]
             /\ metaFiles = [k \in {key} |->
                                [dir_hash |-> ComputePdfDirHash(folder)]]
    /\ cancel = FALSE
    /\ model_name = NoModel
    /\ documents = <<>>
    /\ bm25 = None
    /\ reranker = FALSE
    /\ doc_embeddings = None
    /\ deep_mode = FALSE
    /\ pc = "idle"
    /\ call = NoCall
    /\ indexer = <<>>
    /\ lastResult = "none"
    /\ searchOut = "none"
    /\ builds = 0
    /\ built = FALSE
    /\ lastFresh = NoFresh

BuildWithSettings == \E force_rebuild \in BOOLEAN, st \in Settings :
                        BuildStart(force_rebuild, st[1], st[2])

\* The caller sets the cancel_event while the extraction runs.
CancelBuild == pc \in {"files", "pages"} /\ Cancel

NextKeys ==
    \/ BuildWithSettings
    \/ CancelBuild
    \/ BuildFromCache
    \/ ExtractAllStep
    \/ ExtractPdfPage
    \/ BuildPost

SpecKeys == InitKeys /\ [][NextKeys]_vars

\* ------------------------------------------------------------------ claims

\* C1: a search on a locator on which no build_index has completed fails with
\* the "Index not built" precondition error, and a search after a build that
\* completed with zero chunks returns the empty result without error.
C1_SearchBeforeBuildFails ==
    searchOut # "none" =>
        /\ ~built => searchOut = "not_built"
        /\ (built /\ documents = <<>>) => searchOut = "empty"

\* C2: when build_index raises the canceled condition, documents, the lexical
\* retriever, the embedding matrix and deep_mode are what they were when the
\* call began.
C2_CancelRestoresIndex ==
    [][(pc = "post" /\ lastResult' = "canceled") =>
          /\ documents' = call.pre.documents
          /\ bm25' = call.pre.bm25
          /\ doc_embeddings' = call.pre.doc_embeddings
          /\ deep_mode' = call.pre.deep_mode]_vars

\* C3: once the cancellation signal is set during the extraction of a build,
\* it stays set until the build ends, the build ends canceled and not ready,
\* and when it ends neither the cache file nor the metadata file of the
\* build's key exists.
C3_CancelLeavesNoCache ==
    [][(pc \in {"files", "pages", "post"} /\ cancel) =>
          /\ pc' \in {"files", "pages", "post"} => cancel'
          /\ pc' \notin {"files", "pages", "post"} =>
                /\ lastResult' = "canceled"
                /\ call.key \notin DOMAIN cacheFiles'
                /\ call.key \notin DOMAIN metaFiles']_vars

\* C3 witness: a build canceled after the first of the files was extracted,
\* with a later file still in the folder.
C3_Witness ==
    /\ lastResult = "canceled"
    /\ call.op = "build_fresh"
    /\ documents # <<>>
    /\ \A i \in 1..Len(documents) : documents[i].pdf_name = 1
    /\ 2 \in folder

\* C4: a build without force_rebuild that finds the cache file of its key
\* with missing or mismatching metadata ends with documents equal to a fresh
\* extraction of the folder.
C4_StaleCacheIsRebuilt ==
    [][(pc = "cache" /\ ~UseCache(call.key, folder) /\ pc' = "idle") =>
          /\ lastResult' = "ready"
          /\ documents' = ExtractAll(folder, call.ocr_mode)]_vars

\* C5: when the latest build for a key completed by extraction and the folder
\* has not changed since, the next build of that key without force_rebuild
\* takes the cache branch, extracts nothing and ends ready with the chunk
\* sequence of that build.
C5_UnchangedFolderReusesCache ==
    [][(call'.op = "build" /\ builds' = builds + 1 /\ ~call'.force
           /\ lastFresh.valid /\ lastFresh.key = call'.key
         => pc' = "cache")
       /\ (pc = "cache" /\ pc' # "cache"
           /\ lastFresh.valid /\ lastFresh.key = call.key
         => /\ pc' = "idle"
            /\ lastResult' = "ready"
            /\ indexer' = indexer
            /\ documents' = lastFresh.docs)]_vars

\* C5 witness: a build that ended on the cache branch with the chunks of the
\* earlier extraction.
C5_Witness ==
    /\ call.op = "build_load"
    /\ lastResult = "ready"
    /\ lastFresh.valid
    /\ documents = lastFresh.docs
    /\ documents # <<>>

\* C6: whenever deep_mode is true the embedding matrix has one row per chunk
\* of documents, row i encoded from documents[i].
C6_EmbeddingsMatchDocuments ==
    deep_mode =>
        /\ doc_embeddings # None
        /\ Len(doc_embeddings.rows) = Len(documents)
        /\ \A i \in 1..Len(documents) :
              doc_embeddings.rows[i] = Encode(documents[i].text)

\* C7: for every search on a non-empty index, in fast and in deep mode, the
\* returned is_cross_lingual flag is true exactly when no chunk has a positive
\* lexical score and the model is multilingual-flagged, and when it is true the
\* bias used for fusion is 0.
C7_CrossLingualIff ==
    rank.pc = "done" =>
        /\ rank.out.is_cross_lingual <=>
              /\ \A i \in DOMAIN rank.in.bm : rank.in.bm[i] <= 0
              /\ IsMultilingual(model_name)
        /\ rank.out.is_cross_lingual => rank.out.bm25_weight = 0

\* C8: when the cross-lingual fallback triggers on a query whose lexical
\* scores are all zero, the returned results are the candidates of highest
\* semantic similarity in descending order of similarity, under both fusion
\* methods.
C8_CrossLingualIsPureSemantic ==
    (rank.pc = "done" /\ rank.out.is_cross_lingual
       /\ \A i \in DOMAIN rank.in.bm : rank.in.bm[i] = 0) =>
        /\ \A a, b \in DOMAIN rank.out.results :
              a < b => rank.in.sem[rank.out.results[a]] >= rank.in.sem[rank.out.results[b]]
        /\ \A j \in rank.out.candidates \ Range(rank.out.results) :
              \A a \in DOMAIN rank.out.results :
                  rank.in.sem[j] <= rank.in.sem[rank.out.results[a]]

\* C9: with a semantic model and the percentile blend, a search with bias 1.0
\* returns its results in descending raw lexical score and a search with bias
\* 0.0 in descending raw semantic score: no result of strictly lower raw score
\* precedes one of strictly higher raw score.
C9_BiasExtremesFollowRawOrder ==
    (rank.pc = "done" /\ reranker /\ rank.in.fusion_method = "percentile") =>
        /\ (rank.in.bm25_weight = 10 /\ ~rank.out.is_cross_lingual) =>
              \A a, b \in DOMAIN rank.out.results :
                  a < b => rank.in.bm[rank.out.results[a]] >= rank.in.bm[rank.out.results[b]]
        /\ rank.in.bm25_weight = 0 =>
              \A a, b \in DOMAIN rank.out.results :
                  a < b => rank.in.sem[rank.out.results[a]] >= rank.in.sem[rank.out.results[b]]

\* The rankings of the candidates cs under score: rank 1 the best, a
\* candidate of strictly higher score before one of lower score.
RanksOf(cs, score) ==
    {rk \in [cs -> 1..Cardinality(cs)] :
        /\ \A i, j \in cs : i # j => rk[i] # rk[j]
        /\ \A i, j \in cs : score[i] > score[j] => rk[i] < rk[j]}

\* 1/(60 + l1) + 1/(60 + s1) >= 1/(60 + l2) + 1/(60 + s2).
RrfAtLeast(l1, s1, l2, s2) ==
    (120 + l1 + s1) * (60 + l2) * (60 + s2) >= (120 + l2 + s2) * (60 + l1) * (60 + s1)

AffineMaps == {<<1, 3>>, <<2, 0>>, <<3, -4>>}

\* The result orders the fusion can return for the candidates cs.
RrfOrders(cs, lex, sm, top_k) ==
    LET candidates == SetToSeq(cs)
    IN {r.results : r \in Ranked(candidates,
                                  [k \in DOMAIN candidates |-> lex[candidates[k]]],
                                  [k \in DOMAIN candidates |-> sm[candidates[k]]],
                                  top_k, 0, "rrf")}

\* C10: under rrf there are rankings of the candidates by lexical and by
\* semantic score (rank 1 the best) for which the results are the top_k
\* candidates in descending 1/(60+lexical_rank) + 1/(60+semantic_rank), and the
\* orders that can be returned are the same when every lexical score or every
\* semantic score s is replaced by a*s+b with a > 0.
C10_RrfRanksAndInvariance ==
    (rank.pc = "done" /\ reranker /\ rank.in.fusion_method = "rrf"
       /\ rank.out.candidates # {}) =>
        LET cs == rank.out.candidates
            res == rank.out.results
            lex == [i \in cs |-> IF rank.out.is_cross_lingual /\ ~UseDeep
                                 THEN 0 ELSE rank.in.bm[i]]
            sm == [i \in cs |-> rank.in.sem[i]]
            orders == RrfOrders(cs, lex, sm, rank.in.top_k)
        IN /\ Len(res) = Min(rank.in.top_k, Cardinality(cs))
           /\ \E lr \in RanksOf(cs, lex), sr \in RanksOf(cs, sm) :
                /\ \A a, b \in DOMAIN res :
                      a < b => RrfAtLeast(lr[res[a]], sr[res[a]], lr[res[b]], sr[res[b]])
                /\ \A j \in cs \ Range(res), a \in DOMAIN res :
                      RrfAtLeast(lr[res[a]], sr[res[a]], lr[j], sr[j])
           /\ res \in orders
           /\ \A m \in AffineMaps :
                /\ RrfOrders(cs, [i \in cs |-> m[1] * lex[i] + m[2]], sm, rank.in.top_k)
                      = orders
                /\ RrfOrders(cs, lex, [i \in cs |-> m[1] * sm[i] + m[2]], rank.in.top_k)
                      = orders

\* C10 witness: a deep search under rrf over three chunks of distinct lexical
\* and distinct semantic scores that returned a chunk of lower similarity
\* before one of higher similarity.
C10_Witness ==
    /\ rank.pc = "done"
    /\ UseDeep
    /\ rank.in.fusion_method = "rrf"
    /\ Len(rank.in.bm) = 3
    /\ \A i, j \in 1..3 : i # j => rank.in.bm[i] # rank.in.bm[j] /\ rank.in.sem[i] # rank.in.sem[j]
    /\ Len(rank.out.results) = 2
    /\ rank.in.sem[rank.out.results[1]] < rank.in.sem[rank.out.results[2]]

\* The score the percentile blend gives candidate d of the candidates cs, in
\* thousandths: (1 - w) * semantic_normalized + w * lexical_normalized over
\* the raw scores lex and sm, w in tenths.
BlendScore(cs, lex, sm, w, d) ==
    LET candidates == SetToSeq(cs)
        k == CHOOSE j \in DOMAIN candidates : candidates[j] = d
        sn == PercentileNormalize([j \in DOMAIN candidates |-> sm[candidates[j]]])
        bn == PercentileNormalize([j \in DOMAIN candidates |-> lex[candidates[j]]])
    IN Round3((10 - w) * sn.num[k] * bn.den + w * bn.num[k] * sn.den,
              10 * sn.den * bn.den)

\* C11 as stated: every result item of a search under rrf carries no score,
\* and every result item of a search under the percentile blend carries a
\* score in [0,1].
C11_ScoreByFusionMethod ==
    rank.pc = "done" =>
        \A k \in DOMAIN rank.out.results :
            /\ rank.in.fusion_method = "rrf" => rank.out.scores[k] = None
            /\ rank.in.fusion_method = "percentile" =>
                  /\ rank.out.scores[k] # None
                  /\ rank.out.scores[k].milli \in 0..1000

\* C11 amended: with a semantic model loaded, every result item under rrf
\* carries no score and every result item under the percentile blend carries
\* (1-bias)*semantic_normalized + bias*lexical_normalized for the bias the
\* fusion used, rounded to three decimals, which lies in [0,1].
C11_ScoreWithModel ==
    (rank.pc = "done" /\ reranker) =>
        LET cs == rank.out.candidates
            lex == [i \in cs |-> IF rank.out.is_cross_lingual /\ ~UseDeep
                                 THEN 0 ELSE rank.in.bm[i]]
            sm == [i \in cs |-> rank.in.sem[i]]
        IN \A k \in DOMAIN rank.out.results :
              /\ rank.in.fusion_method = "rrf" => rank.out.scores[k] = None
              /\ rank.in.fusion_method = "percentile" =>
                    /\ rank.out.scores[k] # None
                    /\ rank.out.scores[k].milli =
                          BlendScore(cs, lex, sm, rank.out.bm25_weight, rank.out.results[k])
                    /\ rank.out.scores[k].milli \in 0..1000

\* C11 witness: a percentile-blend search with a model and the default bias
\* whose first result has a score strictly between 0 and 1.
C11_Witness ==
    /\ rank.pc = "done"
    /\ reranker
    /\ rank.in.fusion_method = "percentile"
    /\ rank.in.bm25_weight = 3
    /\ rank.out.results # <<>>
    /\ rank.out.scores[1].milli \in 1..999

\* C12: during a build the cancel_event is checked immediately before each
\* external call (opening a file, a page's text extraction, an OCR call), so
\* that at most one further call is started after the event was set.
C12_CancelCheckedBeforeEachCall ==
    /\ unit.kind \in {"open", "text", "ocr"} => unit.checked
    /\ lateUnits <= 1

\* C13: a build without force_rebuild that finds the cache file or the
\* metadata file of its key unreadable ends ready with documents equal to a
\* fresh extraction of the folder.
C13_UnreadableCacheIsRebuilt ==
    [][(/\ pc = "cache"
        /\ pc' = "idle"
        /\ \/ ~IsPickle(cacheFiles[call.key])
           \/ call.key \in DOMAIN metaFiles /\ ~IsMeta(metaFiles[call.key]))
         => /\ lastResult' = "ready"
            /\ documents' = ExtractAll(folder, call.ocr_mode)]_vars

\* Whether opening or parsing file f fails.
Fails(f) ==
    \/ ~pdf[f].opens
    \/ \E p \in DOMAIN pdf[f].pages : pdf[f].pages[p].raises

\* The OCR text of a page in a run that is not disturbed: none unless the
\* mode asks for OCR, else the text the OCR cache holds once the page was
\* read.
OcrTextOf(f, p, ocr_mode, ocr_dpi) ==
    LET page == pdf[f].pages[p]
        key == PdfCacheKey(f, p, ocr_dpi)
    IN IF ~WantsOcr(ocr_mode, page, ocr.available) THEN 0
       ELSE IF key \in DOMAIN ocr.cache THEN ocr.cache[key]
       ELSE IF ~page.renders THEN 0
       ELSE OcrImage(page)

\* The chunks of the files of a list, none of which fails, in file and page
\* order.
RECURSIVE ChunksOfPages(_, _, _, _)
ChunksOfPages(f, p, ocr_mode, ocr_dpi) ==
    IF p > Len(pdf[f].pages) THEN <<>>
    ELSE ChunksOf(f, p, pdf[f].pages[p].chars, OcrTextOf(f, p, ocr_mode, ocr_dpi))
         \o ChunksOfPages(f, p + 1, ocr_mode, ocr_dpi)

RECURSIVE ChunksOfFiles(_, _, _)
ChunksOfFiles(pdf_files, ocr_mode, ocr_dpi) ==
    IF pdf_files = <<>> THEN <<>>
    ELSE ChunksOfPages(Head(pdf_files), 1, ocr_mode, ocr_dpi)
         \o ChunksOfFiles(Tail(pdf_files), ocr_mode, ocr_dpi)

\* C14: when extract_all has returned without cancellation, the chunks of
\* the files that did not fail are those of an extraction of the folder
\* without the failing files: a file that cannot be opened or parsed stops
\* neither the run nor the processing of the files after it.
C14_FailingFileIsSkipped ==
    (call.op = "extracted" /\ ~call.canceled) =>
        LET good == {f \in folder : ~Fails(f)}
            Keep(d) == d.pdf_name \in good
        IN SelectSeq(indexer, Keep)
             = ChunksOfFiles(SetToSeq(good), call.ocr_mode, call.ocr_dpi)

\* C14 witness: a run over a folder whose first file raised on its second
\* page has returned with a chunk of the first page of that file and with
\* the chunks of the file after it.
C14_Witness ==
    /\ call.op = "extracted"
    /\ ~call.canceled
    /\ pdf[1].pages[2].raises
    /\ \E i \in DOMAIN indexer : indexer[i].pdf_name = 1
    /\ \E i \in DOMAIN indexer : indexer[i].pdf_name = 2

\* The embedding rows of the first n chunks of the store, in store order.
RowsOf(n) == [i \in 1..n |-> <<"emb", documents[i].text>>]

\* C15: on a locator with a model and a non-empty store precompute_embeddings
\* encodes the chunks in store order in batches of BatchSize.  A batch is
\* encoded only while the cancel_event is not set; the progress reported
\* after it grows by the size of the batch, which is BatchSize except for a
\* shorter last batch, and is the total on the last report.  When the event
\* is set before a batch, no further batch is encoded, the embeddings are
\* cleared, deep_mode is false and the call raises.  A call that ends
\* normally leaves one row per chunk and deep_mode true.
C15_PrecomputeInBatches ==
    [][pc = "embed" =>
         LET total == Len(documents) IN
         /\ (pc' = "embed" /\ call' # call) =>
                /\ ~cancel
                /\ call'.current > call.current
                /\ call'.current - call.current <= BatchSize
                /\ call'.current < total =>
                       call'.current - call.current = BatchSize
                /\ call'.current <= total
                /\ call'.rows = RowsOf(call'.current)
         /\ (pc' = "idle" /\ ~cancel) =>
                /\ call.current = total
                /\ lastResult' = "embedded"
                /\ deep_mode'
                /\ doc_embeddings' = [rows |-> RowsOf(total)]
         /\ (cancel /\ call.current < total /\ call' # call) =>
                /\ pc' = "idle"
                /\ lastResult' = "canceled"
                /\ doc_embeddings' = None
                /\ ~deep_mode'
         /\ lastResult' = "embedded" => call.current = total
      ]_vars

\* C15 witness: a call over more than two batches of chunks has ended with
\* deep_mode true.
C15_Witness ==
    /\ lastResult = "embedded"
    /\ deep_mode
    /\ Len(documents) > 2 * BatchSize
    /\ Len(doc_embeddings.rows) = Len(documents)

\* C16: ocr_page is called for a page exactly when the mode allows it and an
\* OCR engine is available: never in mode off, never for a page without
\* images, in mode fast only for a page whose text layer is shorter than
\* FastOcrChars, in mode deep whatever the length of the text layer.
C16_OcrOnlyAsModeAllows ==
    [][/\ (pc = "text" /\ pc' # "text") =>
         LET page == pdf[call.pdf_files[call.fi]].pages[call.pi]
             allowed == /\ call.ocr_mode # "off"
                        /\ page.images
                        /\ call.ocr_mode = "fast" => page.chars < 20
         IN /\ pc' = "ocr" => allowed
            /\ (allowed /\ ocr.available /\ ~page.raises) => pc' = "ocr"
       /\ (unit'.kind = "ocr" /\ pc' # pc) => pc = "ocr"
      ]_vars

\* C16 witness: in mode deep ocr_page was called for a page with images and
\* a text layer of FastOcrChars characters or more.
C16_Witness ==
    /\ unit.kind = "ocr"
    /\ call.op = "extract"
    /\ call.ocr_mode = "deep"
    /\ pdf[unit.f].pages[unit.p].images
    /\ pdf[unit.f].pages[unit.p].chars >= 20

\* The length of a page's text once an OCR text of ocr_chars characters was
\* appended to a text layer of chars characters.
LengthAfterOcr(chars, ocr_chars) ==
    IF ocr_chars = 0 THEN chars
    ELSE IF chars = 0 THEN ocr_chars
    ELSE chars + 1 + ocr_chars

\* C17: a page that was processed to its end contributes no chunk if and
\* only if its text after OCR augmentation is shorter than 50 characters
\* when OCR contributed no text and shorter than 10 characters when it did;
\* in mode off a page of images without text layer is dropped and ocr_page
\* is not called.
C17_ShortPagesAreDropped ==
    [][(pc \in {"text", "ocr"} /\ pc' = "page") =>
         LET page == pdf[call.pdf_files[call.fi]].pages[call.pi]
             ocr_chars == IF pc = "ocr" THEN unit'.text ELSE 0
             length == LengthAfterOcr(page.chars, ocr_chars)
             added == Len(indexer') - Len(indexer)
         IN /\ added >= 0
            /\ added = 0 <=> \/ ocr_chars = 0 /\ length < 50
                             \/ ocr_chars > 0 /\ length < 10
            /\ SubSeq(indexer', 1, Len(indexer)) = indexer
            /\ \A i \in (Len(indexer) + 1)..Len(indexer') :
                  /\ indexer'[i].pdf_name = call.pdf_files[call.fi]
                  /\ indexer'[i].page_num = call.pi
            /\ (call.ocr_mode = "off" /\ page.images /\ page.chars = 0) =>
                  added = 0 /\ pc = "text"
      ]_vars

\* C17 witness: a page whose text layer and OCR text together reach exactly
\* ten characters has contributed a chunk.
C17_Witness ==
    /\ unit.kind = "ocr"
    /\ unit.text > 0
    /\ pdf[unit.f].pages[unit.p].chars + 1 + unit.text = 10
    /\ indexer # <<>>
    /\ indexer[Len(indexer)].pdf_name = unit.f
    /\ indexer[Len(indexer)].page_num = unit.p

\* C18: across the runs, an entry of the OCR cache is never removed or
\* changed; a call of ocr_page whose key is stored returns the stored text
\* and does not invoke the engine; a call whose key is not stored and whose
\* page can be rendered invokes the engine and stores what ocr_image
\* returned, an empty text included.
C18_OcrCacheIsWriteOnce ==
    [][/\ \A k \in DOMAIN ocr.cache :
             k \in DOMAIN ocr'.cache /\ ocr'.cache[k] = ocr.cache[k]
       /\ (pc = "ocr" /\ pc' # "ocr") =>
             LET f == call.pdf_files[call.fi]
                 key == <<f, call.pi, call.ocr_dpi>>
             IN IF key \in DOMAIN ocr.cache
                THEN /\ ~unit'.engine
                     /\ unit'.text = ocr.cache[key]
                ELSE pdf[f].pages[call.pi].renders =>
                     /\ unit'.engine
                     /\ unit'.text = OcrImage(pdf[f].pages[call.pi])
                     /\ key \in DOMAIN ocr'.cache
                     /\ ocr'.cache[key] = unit'.text
       /\ (unit'.kind = "ocr" /\ unit' # unit) => pc = "ocr"
      ]_vars

\* C18 witness: in a second run ocr_page returned a stored empty text for a
\* page without invoking the engine.
C18_Witness ==
    /\ builds = 2
    /\ unit.kind = "ocr"
    /\ ~unit.engine
    /\ unit.text = 0
    /\ <<unit.f, unit.p, call.ocr_dpi>> \in DOMAIN ocr.cache
    /\ ocr.cache[<<unit.f, unit.p, call.ocr_dpi>>] = 0

\* The listings of a set of files: its sequences without repetition.
Listings(S) ==
    {l \in [1..Cardinality(S) -> S] : \A i, j \in DOMAIN l : l[i] = l[j] => i = j}

SameFile(before, after, k) ==
    /\ k \in DOMAIN before <=> k \in DOMAIN after
    /\ k \in DOMAIN before => after[k] = before[k]

\* C20: the cache key tells apart the OCR modes and the resolutions; a build
\* creates, overwrites or deletes no cache or metadata file but those of its
\* own key; and a build that loads the snapshot of its key leaves the files
\* as they are and ends ready with the chunks of an extraction under its own
\* mode.
C20_SnapshotsPerSettings ==
    [][/\ \A s1, s2 \in Settings :
             IndexCachePrefix(folder, s1[1], s1[2])
               = IndexCachePrefix(folder, s2[1], s2[2]) => s1 = s2
       /\ \A k \in DOMAIN cacheFiles \cup DOMAIN cacheFiles'
                   \cup DOMAIN metaFiles \cup DOMAIN metaFiles' :
             (pc = "idle" \/ k # call.key) =>
                /\ SameFile(cacheFiles, cacheFiles', k)
                /\ SameFile(metaFiles, metaFiles', k)
       /\ (pc = "cache" /\ pc' = "idle") =>
             /\ cacheFiles' = cacheFiles
             /\ metaFiles' = metaFiles
             /\ lastResult' = "ready"
             /\ documents' = Unpickle(cacheFiles[call.key])
             /\ documents' = ExtractAll(folder, call.ocr_mode)
      ]_vars

\* C20 witness: two snapshots of different content lie side by side, and the
\* second build of the locator has loaded one of them.
C20_Witness ==
    /\ call.op = "build_load"
    /\ builds = 2
    /\ \E k1, k2 \in DOMAIN cacheFiles :
          /\ cacheFiles[k1] # cacheFiles[k2]
          /\ documents = Unpickle(cacheFiles[k1])

\* ======================================================================
\* Specification SpecChunk: one call of PDFIndexer._chunk_text.
\*
\* A unit of _split_units is a stripped, non-empty sentence or line; the
\* model identifies it by its position and keeps len(tokenize(unit)), which
\* is all _chunk_text reads of it.  A chunk is " ".join of the window, so
\* the model keeps a chunk as the sequence of the positions of its units;
\* tokenize of the joined text yields the tokens of the units one after
\* the other (units are separated by a blank), so the token count of a
\* chunk is the sum of the token counts of its units.
\* ======================================================================

MaxTokens == 400
OverlapTokens == 80

MaxUnits == 4

\* len(tokenize(unit)): 0 for a unit of stopwords or punctuation only
TokenCounts == {0, 40, 120, 390, 450}

UnitLists == UNION {[1..n -> TokenCounts] : n \in 0..MaxUnits}

\* lines 294-296
TokCount(units, i) == IF units[i] = 0 THEN 1 ELSE units[i]

\* lines 300-302: while window and total_tokens > _OVERLAP_TOKENS: pop(0)
RECURSIVE PopOverlap(_, _, _)
PopOverlap(window, total, units) ==
    IF window # <<>> /\ total > OverlapTokens
    THEN PopOverlap(Tail(window), total - TokCount(units, Head(window)), units)
    ELSE [window |-> window, total |-> total]

\* line 310: " ".join of non-empty stripped units is empty only for no unit
NonEmptyChunks(chunks) == SelectSeq(chunks, LAMBDA c : c # <<>>)

FinalWindowDropped(window, chunks) == chunks

\* lines 307-308
FinalWindow(window, chunks) ==
    IF window # <<>> THEN Append(chunks, window) ELSE chunks

chunkFixed == <<folder, folderChanges, cacheFiles, metaFiles, cancel,
                model_name, documents, bm25, reranker, doc_embeddings,
                deep_mode, pc, call, indexer, lastResult, searchOut, builds,
                built, lastFresh, rank, pdf, ocr, unit, lateUnits>>

\* lines 293-305: one iteration of the loop over the units
ChunkUnit ==
    /\ chunker.pc = "loop"
    /\ chunker.i <= Len(chunker.units)
    /\ LET tok_count == TokCount(chunker.units, chunker.i)
           flush == /\ chunker.total + tok_count > MaxTokens
                    /\ chunker.window # <<>>
           kept == IF flush
                   THEN PopOverlap(chunker.window, chunker.total, chunker.units)
                   ELSE [window |-> chunker.window, total |-> chunker.total]
       IN chunker' = [chunker EXCEPT
                         !.chunks = IF flush THEN Append(@, chunker.window) ELSE @,
                         !.window = Append(kept.window, chunker.i),
                         !.total = kept.total + tok_count,
                         !.i = @ + 1]
    /\ UNCHANGED chunkFixed

\* lines 286-287 (no unit) and 307-310 (after the loop)
ChunkReturn ==
    /\ chunker.pc = "loop"
    /\ chunker.i > Len(chunker.units)
    /\ chunker' = [chunker EXCEPT
                      !.chunks = NonEmptyChunks(FinalWindow(chunker.window, @)),
                      !.pc = "done"]
    /\ UNCHANGED chunkFixed

InitChunk ==
    /\ \E units \in UnitLists :
          chunker = [pc |-> "loop", units |-> units, i |-> 1, window |-> <<>>,
                     total |-> 0, chunks |-> <<>>]
    /\ rank = NoRank
    /\ pdf = DefaultPdf
    /\ ocr = [available |-> TRUE, cache |-> <<>>]
    /\ unit = NoUnit
    /\ lateUnits = 0
    /\ folder = Files
    /\ folderChanges = 0
    /\ cacheFiles = <<>>
    /\ metaFiles = <<>>
    /\ cancel = FALSE
    /\ model_name = NoModel
    /\ documents = <<>>
    /\ bm25 = None
    /\ reranker = FALSE
    /\ doc_embeddings = None
    /\ deep_mode = FALSE
    /\ pc = "idle"
    /\ call = NoCall
    /\ indexer = <<>>
    /\ lastResult = "none"
    /\ searchOut = "none"
    /\ builds = 0
    /\ built = FALSE
    /\ lastFresh = NoFresh

NextChunk == ChunkUnit \/ ChunkReturn

SpecChunk == InitChunk /\ [][NextChunk]_vars

\* len(tokenize(chunk)) of the chunk made of the units at these positions
RECURSIVE ChunkTokens(_, _)
ChunkTokens(chunk, units) ==
    IF chunk = <<>> THEN 0
    ELSE units[Head(chunk)] + ChunkTokens(Tail(chunk), units)

\* C21: every chunk _chunk_text returns has at most 400 tokens, except a
\* chunk that consists of exactly one unit whose own token count exceeds 400.
C21_ChunksWithinMaxTokens ==
    chunker.pc = "done" =>
        \A c \in 1..Len(chunker.chunks) :
            LET chunk == chunker.chunks[c] IN
            \/ ChunkTokens(chunk, chunker.units) <= MaxTokens
            \/ /\ Len(chunk) = 1
               /\ chunker.units[chunk[1]] > MaxTokens

\* the last n units of chunk a are the first n units of chunk b
SharesUnits(a, b, n) ==
    /\ n <= Len(a)
    /\ n <= Len(b)
    /\ \A k \in 1..n : a[Len(a) - n + k] = b[k]

\* C22: adjacent chunks i and i+1 share at least one unit: the last unit(s)
\* of chunk i are the first unit(s) of chunk i+1.
C22_AdjacentChunksOverlap ==
    chunker.pc = "done" =>
        \A c \in 1..(Len(chunker.chunks) - 1) :
            \E n \in 1..MaxUnits :
                SharesUnits(chunker.chunks[c], chunker.chunks[c + 1], n)

\* the units of a chunk are consecutive units of the text, in their order
Consecutive(chunk) == \A k \in 1..(Len(chunk) - 1) : chunk[k + 1] = chunk[k] + 1

\* C25: _chunk_text loses no text: every unit of _split_units is in at least
\* one chunk, the units inside each chunk and across the chunk sequence keep
\* their order, the final window is emitted as the last chunk, and no
\* emitted chunk is empty.
C25_NoTextIsLost ==
    chunker.pc = "done" =>
        LET chunks == chunker.chunks
            units == chunker.units IN
        /\ \A u \in 1..Len(units) :
              \E c \in 1..Len(chunks) : \E k \in 1..Len(chunks[c]) : chunks[c][k] = u
        /\ \A c \in 1..Len(chunks) : Consecutive(chunks[c])
        /\ \A c \in 1..(Len(chunks) - 1) :
              /\ chunks[c][1] <= chunks[c + 1][1]
              /\ chunks[c][Len(chunks[c])] < chunks[c + 1][Len(chunks[c + 1])]
        /\ units # <<>> =>
              /\ chunks # <<>>
              /\ chunks[Len(chunks)] = chunker.window
              /\ chunker.window[Len(chunker.window)] = Len(units)
        /\ units = <<>> => chunks = <<>>
        /\ \A c \in 1..Len(chunks) : chunks[c] # <<>>

\* a text of several chunks, one of them flushed with an overlap kept and
\* one flushed with none
C25_Witness ==
    /\ chunker.pc = "done"
    /\ Len(chunker.chunks) >= 3
    /\ \E c \in 1..(Len(chunker.chunks) - 1) :
          SharesUnits(chunker.chunks[c], chunker.chunks[c + 1], 1)
    /\ \E c \in 1..(Len(chunker.chunks) - 1) :
          chunker.chunks[c + 1][1] = chunker.chunks[c][Len(chunker.chunks[c])] + 1

\* ======================================================================
\* Specification SpecBm25: one call of BM25Retriever.search on a built
\* retriever.  The scores get_scores returns for the query range over every
\* vector of LexScores; equal scores arise for chunks of identical text.
\* ======================================================================

Queries ==
    UNION {[scores : [1..n -> LexScores], top_k : 0..MaxChunks] : n \in 1..MaxChunks}

\* lines 385-398
RetrieverSearch ==
    /\ rank.pc = "query"
    /\ \E found \in BM25Search(rank.scores, rank.top_k) :
          rank' = [rank EXCEPT
                      !.pc = "found",
                      !.found = [r \in DOMAIN found |->
                                   [chunk |-> found[r], score |-> rank.scores[found[r]]]]]
    /\ UNCHANGED <<lifeVars, pdf, ocr, unit, lateUnits, chunker>>

InitBm25 ==
    /\ \E q \in Queries :
          /\ rank = [pc |-> "query", scores |-> q.scores, top_k |-> q.top_k,
                     found |-> <<>>]
          /\ documents = RankDocs(Len(q.scores))
    /\ bm25 = [documents |-> documents]
    /\ model_name = NoModel
    /\ reranker = FALSE
    /\ doc_embeddings = None
    /\ deep_mode = FALSE
    /\ folder = Files
    /\ folderChanges = 0
    /\ cacheFiles = <<>>
    /\ metaFiles = <<>>
    /\ cancel = FALSE
    /\ pc = "idle"
    /\ call = NoCall
    /\ indexer = <<>>
    /\ lastResult = "ready"
    /\ searchOut = "none"
    /\ builds = 1
    /\ built = TRUE
    /\ lastFresh = NoFresh
    /\ pdf = DefaultPdf
    /\ ocr = [available |-> TRUE, cache |-> <<>>]
    /\ unit = NoUnit
    /\ lateUnits = 0
    /\ chunker = NoChunker

NextBm25 == RetrieverSearch

SpecBm25 == InitBm25 /\ [][NextBm25]_vars

\* at most k pairs, every score positive, and a chunk with a positive score
\* left out only if k chunks scoring at least as high are returned
TopPositive(found, scores, top_k) ==
    /\ Len(found) <= top_k
    /\ \A r \in DOMAIN found :
          /\ found[r].score > 0
          /\ found[r].score = scores[found[r].chunk]
    /\ \A r1, r2 \in DOMAIN found : r1 # r2 => found[r1].chunk # found[r2].chunk
    /\ \A i \in DOMAIN scores :
          (scores[i] > 0 /\ \A r \in DOMAIN found : found[r].chunk # i) =>
              /\ Len(found) = top_k
              /\ \A r \in DOMAIN found : found[r].score >= scores[i]

\* C23 as stated: BM25Retriever.search(query, k) returns at most k pairs,
\* every score strictly positive, the scores strictly descending along the
\* list, and a chunk with a positive score is left out only if k chunks with
\* scores at least as high are returned.
C23_StrictlyDescending ==
    rank.pc = "found" =>
        /\ TopPositive(rank.found, rank.scores, rank.top_k)
        /\ \A r \in 1..(Len(rank.found) - 1) :
              rank.found[r].score > rank.found[r + 1].score

\* C23 (amended): the same with the scores non-increasing along the list:
\* chunks of equal score are both returned, in either order.
C23_TopKPositiveDescending ==
    rank.pc = "found" =>
        /\ TopPositive(rank.found, rank.scores, rank.top_k)
        /\ \A r \in 1..(Len(rank.found) - 1) :
              rank.found[r].score >= rank.found[r + 1].score

\* a search that cuts at k, returns two chunks of equal score and leaves a
\* positive chunk out
C23_Witness ==
    /\ rank.pc = "found"
    /\ Len(rank.found) = rank.top_k
    /\ rank.top_k >= 2
    /\ rank.found[1].score = rank.found[2].score
    /\ \E i \in DOMAIN rank.scores :
          /\ rank.scores[i] > 0
          /\ \A r \in DOMAIN rank.found : rank.found[r].chunk # i

\* C24: in the index extract_all builds the identity (source name, page
\* number, chunk number) is unique among the chunks, and the chunks of one
\* source file are contiguous, in ascending page order and, within a page, in
\* ascending chunk order.
C24_ChunkIdentityAndOrder ==
    call.op \in {"extract", "extracted"} =>
        /\ \A i, j \in DOMAIN indexer :
              (/\ indexer[i].pdf_name = indexer[j].pdf_name
               /\ indexer[i].page_num = indexer[j].page_num
               /\ indexer[i].chunk_id = indexer[j].chunk_id) => i = j
        /\ \A i, j, k \in DOMAIN indexer :
              (i < j /\ j < k /\ indexer[i].pdf_name = indexer[k].pdf_name) =>
                  indexer[j].pdf_name = indexer[i].pdf_name
        /\ \A i, j \in DOMAIN indexer :
              (i < j /\ indexer[i].pdf_name = indexer[j].pdf_name) =>
                  \/ indexer[i].page_num < indexer[j].page_num
                  \/ /\ indexer[i].page_num = indexer[j].page_num
                     /\ indexer[i].chunk_id < indexer[j].chunk_id
        /\ \A i \in DOMAIN indexer :
              /\ indexer[i].chunk_id >= 1
              /\ indexer[i].chunk_id > 1 =>
                    /\ i > 1
                    /\ indexer[i - 1].pdf_name = indexer[i].pdf_name
                    /\ indexer[i - 1].page_num = indexer[i].page_num
                    /\ indexer[i - 1].chunk_id = indexer[i].chunk_id - 1

\* a finished run whose index holds two chunks of one page, chunks of two
\* pages of one file and chunks of two files
C24_Witness ==
    /\ call.op = "extracted"
    /\ ~call.canceled
    /\ \E i, j, k \in DOMAIN indexer :
          /\ indexer[i].pdf_name = indexer[j].pdf_name
          /\ indexer[i].page_num = indexer[j].page_num
          /\ indexer[i].chunk_id # indexer[j].chunk_id
          /\ indexer[k].pdf_name = indexer[i].pdf_name
          /\ indexer[k].page_num # indexer[i].page_num
    /\ \E i, j \in DOMAIN indexer : indexer[i].pdf_name # indexer[j].pdf_name

\* ======================================================================
\* Specification SpecThreads: the index worker and the search worker on one
\* locator.  The index worker runs build_index(force_rebuild=True) and
\* precompute_embeddings; no lock guards the locator, so a search of the
\* search worker runs between any two assignments of the index worker.  A
\* search reads the fields it uses within one step.  extract_all and the
\* batch loop of precompute_embeddings write no field a search reads and
\* are one step each.
\* ======================================================================

threadFixed == <<pdf, ocr, unit, lateUnits, chunker, cancel, model_name,
                 indexer, searchOut, lastFresh, folder, folderChanges>>

\* lines 592-645: the call up to the return of extract_all
ThreadBuildStart ==
    /\ pc = "idle"
    /\ builds < MaxBuilds
    /\ builds' = builds + 1
    /\ call' = [op |-> "build",
                key |-> IndexCachePrefix(folder, "fast", DefaultDpi),
                docs |-> ExtractAll(folder, "fast"),
                dir_hash |-> ComputePdfDirHash(folder)]
    /\ pc' = "extracted"
    /\ lastResult' = "running"
    /\ UNCHANGED <<threadFixed, rank, cacheFiles, metaFiles, documents, bm25,
                   reranker, doc_embeddings, deep_mode, built>>

\* line 645: self.documents = self.indexer.extract_all()
AssignDocuments ==
    /\ pc = "extracted"
    /\ documents' = call.docs
    /\ pc' = "assigned"
    /\ UNCHANGED <<threadFixed, rank, cacheFiles, metaFiles, bm25, reranker,
                   doc_embeddings, deep_mode, built, builds, call, lastResult>>

\* lines 661-688: the snapshot is written, then the retrievers are set
AssignRetrievers ==
    /\ pc = "assigned"
    /\ cacheFiles' = WriteFile(cacheFiles, call.key, Pickle(documents))
    /\ metaFiles' = WriteFile(metaFiles, call.key, [dir_hash |-> call.dir_hash])
    /\ InitRetrievers(documents)
    /\ built' = TRUE
    /\ lastResult' = "ready"
    /\ pc' = "idle"
    /\ UNCHANGED <<threadFixed, rank, documents, builds, call>>

\* lines 696-726: the guards and the batch loop
ThreadPrecompute ==
    /\ pc = "idle"
    /\ built
    /\ reranker
    /\ documents # <<>>
    /\ call' = [op |-> "embed",
                rows |-> [i \in 1..Len(documents) |-> Encode(documents[i].text)]]
    /\ pc' = "encoded"
    /\ lastResult' = "running"
    /\ UNCHANGED <<threadFixed, rank, cacheFiles, metaFiles, documents, bm25,
                   reranker, doc_embeddings, deep_mode, built, builds>>

\* line 730: self.doc_embeddings = np.vstack(all_embeddings)
AssignEmbeddings ==
    /\ pc = "encoded"
    /\ doc_embeddings' = [rows |-> call.rows]
    /\ pc' = "stacked"
    /\ UNCHANGED <<threadFixed, rank, cacheFiles, metaFiles, documents, bm25,
                   reranker, deep_mode, built, builds, call, lastResult>>

\* line 731: self.deep_mode = True
SetDeepMode ==
    /\ pc = "stacked"
    /\ deep_mode' = TRUE
    /\ pc' = "idle"
    /\ lastResult' = "embedded"
    /\ UNCHANGED <<threadFixed, rank, cacheFiles, metaFiles, documents, bm25,
                   reranker, doc_embeddings, built, builds, call>>

Seen(way, error, returned, scored, row) ==
    [pc |-> "searched", way |-> way, error |-> error, returned |-> returned,
     scored |-> scored, row |-> row, at |-> pc]

\* What a search returns first (lines 748-863): the chunk the search hands
\* out, the chunk whose lexical score put it first and, in deep mode, the
\* embedding row whose similarity did.  Which position ranks first depends on
\* the query.  In deep mode the lexical scores have one entry per chunk of
\* the retriever and the similarities one per row of doc_embeddings; numpy
\* raises ValueError when it adds arrays of different lengths, and
\* self.documents[idx] raises IndexError past the end of the list.
SearchOutcomes ==
    LET way == SearchDispatch IN
    IF way = "empty" THEN {Seen(way, "none", <<>>, <<>>, <<>>)}
    ELSE IF way = "not_built" THEN {Seen(way, "RuntimeError", <<>>, <<>>, <<>>)}
    ELSE IF way = "fast"
    THEN {Seen(way, "none", <<bm25.documents[i]>>, <<bm25.documents[i]>>, <<>>) :
            i \in DOMAIN bm25.documents}
    ELSE IF Len(bm25.documents) # Len(doc_embeddings.rows)
    THEN {Seen(way, "ValueError", <<>>, <<>>, <<>>)}
    ELSE {IF i > Len(documents)
          THEN Seen(way, "IndexError", <<>>, <<>>, <<>>)
          ELSE Seen(way, "none", <<documents[i]>>, <<bm25.documents[i]>>,
                    <<doc_embeddings.rows[i]>>) :
            i \in DOMAIN bm25.documents}

\* search on the search worker, at any point of the index worker
ThreadSearch ==
    /\ rank' \in SearchOutcomes
    /\ rank' # rank
    /\ UNCHANGED <<threadFixed, cacheFiles, metaFiles, documents, bm25,
                   reranker, doc_embeddings, deep_mode, built, builds, call,
                   lastResult, pc>>

ThreadFolderChange == pc = "idle" /\ FolderChange

NextThreads ==
    \/ ThreadFolderChange
    \/ ThreadBuildStart
    \/ AssignDocuments
    \/ AssignRetrievers
    \/ ThreadPrecompute
    \/ AssignEmbeddings
    \/ SetDeepMode
    \/ ThreadSearch

SpecThreads == Init /\ [][NextThreads]_vars

\* C26: a search that runs while build_index or precompute_embeddings runs on
\* another thread sees the complete previous index or the complete new one:
\* it does not fail, and the chunk it returns is the chunk whose lexical
\* score and whose embedding row ranked it.
C26_SearchSeesOneIndex ==
    rank.pc = "searched" =>
        /\ rank.error = "none"
        /\ rank.returned = rank.scored
        /\ \A r \in DOMAIN rank.row : rank.row[r] = Encode(rank.returned[r].text)

\* C27: when no chunk has a positive lexical score for the query and the
\* model is not multilingual-flagged, search returns an empty result list
\* and the cross-lingual flag false, with and without precomputed embeddings.
C27_NoLexicalMatchGivesNothing ==
    (/\ rank.pc = "done"
     /\ \A i \in DOMAIN rank.in.bm : rank.in.bm[i] <= 0
     /\ ~IsMultilingual(model_name)) =>
        /\ rank.out.results = <<>>
        /\ ~rank.out.is_cross_lingual

\* C28: an entry of the OCR cache is written only when the engine ran to its
\* end on the page: a call of ocr_page for a page that cannot be rendered, or
\* on which the engine raises, returns the empty text and stores nothing.
C28_FailedOcrIsNotCached ==
    [][(pc = "ocr" /\ pc' # "ocr") =>
         LET f == call.pdf_files[call.fi]
             page == pdf[f].pages[call.pi]
             key == PdfCacheKey(f, call.pi, call.ocr_dpi)
         IN (key \notin DOMAIN ocr.cache /\ (~page.renders \/ ~page.engine_ok)) =>
                /\ unit'.text = 0
                /\ ocr'.cache = ocr.cache
      ]_vars

\* C30: a source file whose extraction fails contributes no chunk to the
\* index extract_all returns (the index build_index keeps and caches): the
\* chunks of the pages read before the failure are not kept.
C30_FailingFileLeavesNoChunks ==
    (call.op = "extracted" /\ ~call.canceled) =>
        \A i \in DOMAIN indexer : ~Fails(indexer[i].pdf_name)

\* C29: a build_index that ends without success leaves a valid snapshot that
\* was cached before it for the same key on disk as it was: a canceled
\* force_rebuild deletes no file it has not written itself.
C29_CanceledBuildKeepsSnapshot ==
    [][(call.op = "build" /\ lastResult' \in {"canceled", "error"}) =>
         \A k \in DOMAIN cacheFiles :
             (/\ IsPickle(cacheFiles[k])
              /\ k \in DOMAIN metaFiles
              /\ IsMeta(metaFiles[k])) =>
                 /\ k \in DOMAIN cacheFiles'
                 /\ cacheFiles'[k] = cacheFiles[k]
                 /\ k \in DOMAIN metaFiles'
                 /\ metaFiles'[k] = metaFiles[k]
      ]_vars

====
